---------------------------- MODULE Spec2Model ----------------------------
(***************************************************************************)
(* A model of the auto-testid attribute-injection engine:                  *)
(*   - IDGenerator (generators/id-generator.ts)                            *)
(*   - ValidationUtils.sanitizeTestId / shouldAddTestId (utils/validation) *)
(*   - VueParser, ReactParser and AutoTestIDCoreImpl.processFile           *)
(*     (parsers/vue-parser.ts)                                             *)
(* Source text, identifiers and attribute values are TLA+ strings, read    *)
(* character by character the way the code's regular expressions do.       *)
(***************************************************************************)
EXTENDS Integers, Sequences, FiniteSets, TLC

VARIABLES
    lBase,      \* ladder: the base id requested again and again
    lIds,       \* ladder: the growing existingIds set
    lOut,       \* ladder: the ids resolveConflicts returned so far, in order
    gCtx,       \* generate: the GenerationContext, existingIds as the caller keeps it
    gCalls,     \* generate: the calls made so far, with what each returned
    tParser,    \* transform: the parser called, "vue" or "react"
    tContent,   \* transform: the content passed to transform
    tTransformations,   \* transform: the transformations passed
    tResult,    \* transform: the TransformResult returned, once it is
    files,      \* processFile: the texts of the files that exist, by path
    config,     \* processFile: the configuration of the AutoTestIDCoreImpl
    passes,     \* processFile: the calls made so far, with what each returned
    writes,     \* processFile: the files written so far, in the order of writing
    readOnly,   \* processFile: the paths for which fs.writeFile rejects
    tasks,      \* concurrent processFile calls: each call's position and locals
    batch,      \* processFiles: the call, its loop index and its results
    planner,    \* the planning loop of processFile: its locals, round by round
    resolving,  \* a call of resolveConflicts: its locals, round by round
    sanitizing, \* a call of sanitizeTestId: its arguments and what it returned
    splitting   \* a call of parseSFC: the text and the sections it returned

ladderVars == <<lBase, lIds, lOut>>
genVars == <<gCtx, gCalls>>
transformVars == <<tParser, tContent, tTransformations, tResult>>
fileVars == <<files, config, passes, writes, readOnly>>
taskVars == <<tasks>>
batchVars == <<batch>>
callVars == <<planner, resolving, sanitizing, splitting>>
vars == <<lBase, lIds, lOut, gCtx, gCalls, tParser, tContent, tTransformations, tResult,
          files, config, passes, writes, readOnly, tasks, batch,
          planner, resolving, sanitizing, splitting>>

----------------------------------------------------------------------------
(* Strings: the JavaScript string operations the code relies on.           *)
(*                                                                         *)
(* The({e(v) : v \in {x}}) is e(x) with x evaluated once and its value     *)
(* named v: the operators below name their arguments this way before they  *)
(* read them character by character.                                       *)

The(S) == CHOOSE x \in S : TRUE

Ch(s, i) == SubSeq(s, i, i)

Lowers == "abcdefghijklmnopqrstuvwxyz"
Uppers == "ABCDEFGHIJKLMNOPQRSTUVWXYZ"
Digits == "0123456789"

LowerSet == {Ch(Lowers, i) : i \in 1..Len(Lowers)}
UpperSet == {Ch(Uppers, i) : i \in 1..Len(Uppers)}
DigitSet == {Ch(Digits, i) : i \in 1..Len(Digits)}
WhiteSpace == {" ", "\t", "\n", "\r"}

ToLowerCh(c) ==
    IF c \in UpperSet
    THEN Ch(Lowers, CHOOSE i \in 1..Len(Uppers) : Ch(Uppers, i) = c)
    ELSE c

ToUpperCh(c) ==
    IF c \in LowerSet
    THEN Ch(Uppers, CHOOSE i \in 1..Len(Lowers) : Ch(Lowers, i) = c)
    ELSE c

RECURSIVE toLowerCase(_)
\* the recursions on text halve it, so that their depth stays small
toLowerCase(str) ==
    The({ IF Len(s) <= 1 THEN ToLowerCh(s)
          ELSE toLowerCase(SubSeq(s, 1, Len(s) \div 2))
                   \o toLowerCase(SubSeq(s, Len(s) \div 2 + 1, Len(s)))
          : s \in {str} })

RECURSIVE toUpperCase(_)
toUpperCase(str) ==
    The({ IF Len(s) <= 1 THEN ToUpperCh(s)
          ELSE toUpperCase(SubSeq(s, 1, Len(s) \div 2))
                   \o toUpperCase(SubSeq(s, Len(s) \div 2 + 1, Len(s)))
          : s \in {str} })

\* String.prototype.substring(0, n)
substring0(str, n) ==
    The({ IF Len(s) <= n THEN s ELSE SubSeq(s, 1, n) : s \in {str} })

\* String.prototype.slice(n) for 0 <= n
sliceFrom(str, n) ==
    The({ IF n >= Len(s) THEN "" ELSE SubSeq(s, n + 1, Len(s)) : s \in {str} })

startsWith(str, prefix) ==
    \E s \in {str}, p \in {prefix} : Len(s) >= Len(p) /\ SubSeq(s, 1, Len(p)) = p

endsWith(str, suffix) ==
    \E s \in {str}, p \in {suffix} :
        Len(s) >= Len(p) /\ SubSeq(s, Len(s) - Len(p) + 1, Len(s)) = p

MinOf(S) == CHOOSE x \in S : \A y \in S : x <= y
MaxOf(S) == CHOOSE x \in S : \A y \in S : x >= y

\* the first index >= i of s whose character is not in cs (Len(s) + 1 if none)
SkipWhile(str, i, cs) ==
    The({ IF stops = {} THEN Len(str) + 1 ELSE MinOf(stops)
          : stops \in {{j \in i..Len(str) : Ch(str, j) \notin cs}} })

\* the first index >= i of s whose character is in cs (Len(s) + 1 if none)
SkipUntil(str, i, cs) ==
    The({ IF stops = {} THEN Len(str) + 1 ELSE MinOf(stops)
          : stops \in {{j \in i..Len(str) : Ch(str, j) \in cs}} })

\* s without its leading run of characters of the set cs
StripLeading(str, cs) ==
    The({ sliceFrom(s, SkipWhile(s, 1, cs) - 1) : s \in {str} })

StripTrailing(str, cs) ==
    The({ The({ IF stops = {} THEN "" ELSE SubSeq(s, 1, MaxOf(stops))
                : stops \in {{j \in 1..Len(s) : Ch(s, j) \notin cs}} })
          : s \in {str} })

\* String.prototype.trim()
trim(s) == StripTrailing(StripLeading(s, WhiteSpace), WhiteSpace)

RECURSIVE ReplaceOutside(_, _, _)
\* s.replace(/[^cs]/g, r) for a character class cs
ReplaceOutside(str, cs, r) ==
    The({ IF s = "" THEN ""
          ELSE IF Len(s) = 1 THEN (IF s \in cs THEN s ELSE r)
          ELSE ReplaceOutside(SubSeq(s, 1, Len(s) \div 2), cs, r)
                   \o ReplaceOutside(SubSeq(s, Len(s) \div 2 + 1, Len(s)), cs, r)
          : s \in {str} })

RECURSIVE ReplaceInside(_, _, _)
\* s.replace(/[cs]/g, r)
ReplaceInside(str, cs, r) ==
    The({ IF s = "" THEN ""
          ELSE IF Len(s) = 1 THEN (IF s \in cs THEN r ELSE s)
          ELSE ReplaceInside(SubSeq(s, 1, Len(s) \div 2), cs, r)
                   \o ReplaceInside(SubSeq(s, Len(s) \div 2 + 1, Len(s)), cs, r)
          : s \in {str} })

RECURSIVE CollapseRange(_, _, _, _)
\* the characters lo..hi of s, without those that repeat c right after a c
CollapseRange(s, c, lo, hi) ==
    IF lo > hi THEN ""
    ELSE IF lo = hi
         THEN (IF Ch(s, lo) = c /\ lo > 1 /\ Ch(s, lo - 1) = c THEN "" ELSE Ch(s, lo))
    ELSE CollapseRange(s, c, lo, (lo + hi) \div 2)
             \o CollapseRange(s, c, (lo + hi) \div 2 + 1, hi)

\* s.replace(/c+/g, c) for one character c
CollapseRuns(str, c) == The({ CollapseRange(s, c, 1, Len(s)) : s \in {str} })

\* The k-th member of a set of numbers, in increasing order
Kth(S, k) == CHOOSE i \in S : Cardinality({j \in S : j < i}) = k - 1

\* The pieces of s between its separators; a separator is a maximal run of
\* characters of cs (runs = TRUE) or a single such character.  starts are
\* the separators' first indexes.
SplitAt(s, cs, runs, starts) ==
    [k \in 1..(Cardinality(starts) + 1) |->
        The({ IF from > to THEN "" ELSE SubSeq(s, from, to)
              : from \in {IF k = 1 THEN 1
                          ELSE IF runs THEN SkipWhile(s, Kth(starts, k - 1), cs)
                          ELSE Kth(starts, k - 1) + 1},
                to \in {IF k = Cardinality(starts) + 1 THEN Len(s)
                        ELSE Kth(starts, k) - 1} })]

SeparatorStarts(s, cs, runs) ==
    {i \in 1..Len(s) : Ch(s, i) \in cs /\ (~runs \/ i = 1 \/ Ch(s, i - 1) \notin cs)}

SplitOn(str, cs, runs) ==
    The({ The({ SplitAt(s, cs, runs, starts) : starts \in {SeparatorStarts(s, cs, runs)} })
          : s \in {str} })

\* s.split(/\s+/)
splitWhitespace(s) == SplitOn(s, WhiteSpace, TRUE)

\* s.split(c) for a one-character separator: "" splits into <<"">>
split(s, c) == SplitOn(s, {c}, FALSE)

RECURSIVE joinFrom(_, _, _)
joinFrom(parts, sep, i) ==
    IF i > Len(parts) THEN ""
    ELSE IF i = Len(parts) THEN parts[i]
    ELSE parts[i] \o sep \o joinFrom(parts, sep, i + 1)

\* Array.prototype.join(sep): the empty array joins into ""
join(array, sep) == The({ joinFrom(parts, sep, 1) : parts \in {array} })

RECURSIVE numberToString(_)
\* Number.prototype.toString() of a natural number
numberToString(n) ==
    IF n < 10 THEN Ch(Digits, n + 1)
    ELSE numberToString(n \div 10) \o Ch(Digits, (n % 10) + 1)

\* Array.prototype.slice(0, n)
sliceFirst(array, n) ==
    The({ IF Len(seq) <= n THEN seq ELSE SubSeq(seq, 1, n) : seq \in {array} })

includes(array, x) == \E seq \in {array} : \E i \in 1..Len(seq) : seq[i] = x

\* [...new Set(seq)]: duplicates removed, first occurrences kept in order
uniqueInOrder(array) ==
    The({ The({ [k \in 1..Cardinality(firsts) |-> seq[Kth(firsts, k)]]
                : firsts \in {{i \in 1..Len(seq) : \A j \in 1..(i - 1) : seq[j] # seq[i]}} })
          : seq \in {array} })

----------------------------------------------------------------------------
(* ValidationUtils.sanitizeTestId                                          *)

IdChars == LowerSet \cup DigitSet \cup {"_", "-"}

\* .toLowerCase().replace(/[^a-z0-9_-]/g, '-').replace(/^[0-9]+/, '')
\* .replace(/-+/g, '-').replace(/^-+|-+$/g, '')
sanitizeChain(id) ==
    StripTrailing(
        StripLeading(
            CollapseRuns(
                StripLeading(ReplaceOutside(toLowerCase(id), IdChars, "-"), DigitSet),
                "-"),
            {"-"}),
        {"-"})

sanitizeTestId(id, maxLength) ==
    IF id = "" THEN ""
    ELSE The({ The({ IF truncated = "" THEN "element" ELSE truncated
                     : truncated \in
                         {IF maxLength # 0 /\ Len(sanitized) > maxLength
                          THEN StripTrailing(substring0(sanitized, maxLength), {"-"})
                          ELSE sanitized} })
               : sanitized \in {sanitizeChain(id)} })

----------------------------------------------------------------------------
(* Elements, as a parser produces them.  An absent attribute and an empty  *)
(* one are both falsy to every reader of the code, and so are an absent    *)
(* and an empty content: the model keeps "" for both.                      *)

NoPosition == [line |-> -1, column |-> -1, index |-> -1]

Attr(element, name) ==
    IF name \in DOMAIN element.attributes THEN element.attributes[name] ELSE ""

NoAttributes == [a \in {} |-> ""]

----------------------------------------------------------------------------
(* IDGenerator                                                             *)

SEMANTIC_KEYWORDS ==
    {"click", "submit", "cancel", "close", "open", "save", "delete", "edit", "add", "remove",
     "nav", "menu", "link", "breadcrumb", "tab", "page", "home", "back", "next",
     "form", "input", "field", "select", "option", "checkbox", "radio", "textarea", "label",
     "title", "heading", "text", "content", "description", "summary", "detail",
     "header", "footer", "sidebar", "main", "container", "wrapper", "section",
     "success", "error", "warning", "info", "loading", "disabled", "active", "selected"}

ELEMENT_MAPPINGS ==
    [t \in {"button", "input", "select", "textarea", "form", "div", "span", "img", "a",
            "h1", "h2", "h3", "h4", "h5", "h6", "p", "ul", "ol", "li", "table", "tr",
            "td", "th"} |->
        CASE t = "button" -> "btn"
          [] t = "div" -> "container"
          [] t = "span" -> "text"
          [] t = "img" -> "image"
          [] t = "a" -> "link"
          [] t \in {"h1", "h2", "h3", "h4", "h5", "h6"} -> "heading"
          [] t = "p" -> "paragraph"
          [] t \in {"ul", "ol"} -> "list"
          [] t = "li" -> "item"
          [] t = "tr" -> "row"
          [] t = "td" -> "cell"
          [] t = "th" -> "header"
          [] OTHER -> t]

MAX_ATTEMPTS == 100
NUMBERED_ATTEMPTS == 10
LONG_ID_LENGTH == 30
TRUNCATED_LENGTH == 25
GENERATE_MAX_LENGTH == 50

\* [...semanticWords, ...words.filter(w => !semanticWords.includes(w))].slice(0, 3)
semanticFirst(words) ==
    The({ sliceFirst(semanticWords
                         \o SelectSeq(words, LAMBDA w : ~includes(semanticWords, w)), 3)
          : semanticWords \in {SelectSeq(words, LAMBDA w : w \in SEMANTIC_KEYWORDS)} })

extractKeywords(text) ==
    IF text = "" THEN <<>>
    ELSE The({ semanticFirst(words)
               : words \in {SelectSeq(
                     splitWhitespace(ReplaceInside(toLowerCase(text), {"-", "_"}, " ")),
                     LAMBDA w : Len(w) > 1)} })

RECURSIVE keywordsOfAll(_, _)
\* texts.forEach(text => parts.push(...this.extractKeywords(text)))
keywordsOfAll(texts, i) ==
    IF i > Len(texts) THEN <<>>
    ELSE extractKeywords(texts[i]) \o keywordsOfAll(texts, i + 1)

extractMeaningfulAttributes(element) ==
    keywordsOfAll([k \in 1..7 |->
        Attr(element, <<"name", "id", "type", "role", "title", "alt", "placeholder">>[k])], 1)

\* semanticWords.length === 0 && words.length > 0 ? words.slice(0, 2)
\*                                                : semanticWords.slice(0, 3)
contentWords(words) ==
    The({ IF Len(semanticWords) = 0 /\ Len(words) > 0
          THEN sliceFirst(words, 2)
          ELSE sliceFirst(semanticWords, 3)
          : semanticWords \in {SelectSeq(words, LAMBDA w : w \in SEMANTIC_KEYWORDS)} })

\* extractContentKeywords keeping the words of two characters
extractContentKeywordsShort(content) ==
    IF content = "" \/ trim(content) = "" THEN <<>>
    ELSE The({ contentWords(words)
               : words \in {SelectSeq(
                     splitWhitespace(ReplaceOutside(toLowerCase(content),
                         LowerSet \cup DigitSet \cup WhiteSpace, " ")),
                     LAMBDA w : Len(w) >= 2 /\ Len(w) < 15)} })

extractContentKeywords(content) ==
    IF content = "" \/ trim(content) = "" THEN <<>>
    ELSE The({ contentWords(words)
               : words \in {SelectSeq(
                     splitWhitespace(ReplaceOutside(toLowerCase(content),
                         LowerSet \cup DigitSet \cup WhiteSpace, " ")),
                     LAMBDA w : Len(w) > 2 /\ Len(w) < 15)} })

extractAriaSemantics(element) ==
    keywordsOfAll([k \in 1..4 |->
        Attr(element, <<"aria-label", "aria-describedby", "aria-labelledby", "role">>[k])], 1)

extractClassSemantics(element) ==
    The({ IF className = "" THEN <<>>
          ELSE The({ sliceFirst(keywordsOfAll(classNames, 1), 2)
                     : classNames \in {splitWhitespace(className)} })
          : className \in {IF Attr(element, "className") # ""
                           THEN Attr(element, "className") ELSE Attr(element, "class")} })

extractSemanticParts(element) ==
    SelectSeq(extractMeaningfulAttributes(element)
                  \o (IF element.content # ""
                      THEN extractContentKeywords(element.content) ELSE <<>>)
                  \o extractAriaSemantics(element)
                  \o extractClassSemantics(element),
              LAMBDA part : Len(part) > 0)

getElementType(element) ==
    The({ IF tag \in DOMAIN ELEMENT_MAPPINGS THEN ELEMENT_MAPPINGS[tag]
          ELSE The({ IF Len(parts) > 1 THEN parts[Len(parts)] ELSE tag
                     : parts \in {split(tag, "-")} })
          : tag \in {toLowerCase(element.tag)} })

sanitizeComponent(component) ==
    The({ StripTrailing(
              StripLeading(
                  CollapseRuns(
                      ReplaceOutside(
                          IF endsWith(lowered, "component")
                          THEN SubSeq(lowered, 1, Len(lowered) - Len("component"))
                          ELSE lowered,
                          LowerSet \cup DigitSet, "-"),
                      "-"),
                  {"-"}),
              {"-"})
          : lowered \in {toLowerCase(component)} })

\* A caller-supplied strategy.customTransform, named by what it does
customTransform(name, input) ==
    CASE name = "upper" -> toUpperCase(input)
      [] name = "dots" -> ReplaceInside(input, {"-"}, ".")
      [] OTHER -> input

RECURSIVE camelReduce(_, _)
\* the value of components.reduce(...) after the first `upto` components
camelReduce(components, upto) ==
    IF upto = 0 THEN ""
    ELSE IF upto = 1 THEN toLowerCase(components[1])
    ELSE camelReduce(components, upto - 1)
             \o toUpperCase(substring0(components[upto], 1))
             \o toLowerCase(sliceFrom(components[upto], 1))

combineComponents(components, strategy) ==
    IF Len(components) = 0 THEN "element"
    ELSE The({ CASE strategy.type = "kebab-case" -> join(uniqueComponents, "-")
                 [] strategy.type = "camelCase" ->
                      camelReduce(uniqueComponents, Len(uniqueComponents))
                 [] strategy.type = "snake_case" -> join(uniqueComponents, "_")
                 [] strategy.type = "custom" ->
                      IF strategy.customTransform # ""
                      THEN customTransform(strategy.customTransform,
                                           join(uniqueComponents, "-"))
                      ELSE join(uniqueComponents, "-")
                 [] OTHER -> join(uniqueComponents, "-")
               : uniqueComponents \in {uniqueInOrder(components)} })

getSeparator(strategyType) ==
    CASE strategyType = "kebab-case" -> "-"
      [] strategyType = "snake_case" -> "_"
      [] strategyType = "camelCase" -> ""
      [] OTHER -> "-"

applyPrefix(id, prefix, strategy) == prefix \o getSeparator(strategy.type) \o id

\* resolveCandidate switching to the truncated form one round early
resolveCandidateEarly(id, attempts) ==
    IF attempts >= NUMBERED_ATTEMPTS /\ Len(id) > LONG_ID_LENGTH
    THEN substring0(id, TRUNCATED_LENGTH) \o "-" \o numberToString(attempts)
    ELSE id \o "-" \o numberToString(attempts)

\* The candidate the loop body assigns to resolvedId in its n-th round
resolveCandidate(id, attempts) ==
    IF attempts > NUMBERED_ATTEMPTS /\ Len(id) > LONG_ID_LENGTH
    THEN substring0(id, TRUNCATED_LENGTH) \o "-" \o numberToString(attempts)
    ELSE id \o "-" \o numberToString(attempts)

\* while (existingIds.has(resolvedId) && attempts < 100) { attempts++; ... }:
\* entered with resolvedId = id in existingIds, the loop leaves with the
\* candidate of the first round whose candidate is free, or with that of
\* round 100 when none is.
resolveLoop(id, existingIds) ==
    The({ resolveCandidate(id, IF free = {} THEN MAX_ATTEMPTS ELSE MinOf(free))
          : free \in {{n \in 1..MAX_ATTEMPTS :
                          resolveCandidate(id, n) \notin existingIds}} })

\* timestamp stands for Date.now().toString(36) at the moment of the call
resolveConflicts(baseId, existingIds, timestamp) ==
    The({ IF id \notin existingIds THEN id
          ELSE The({ IF resolvedId \in existingIds THEN id \o "-" \o timestamp
                     ELSE resolvedId
                     : resolvedId \in {resolveLoop(id, existingIds)} })
          : id \in {baseId} })

\* steps 1 to 3 of generate: the components of the id
generateComponents(element, context) ==
    The({ IF elementType # "" /\ ~includes(components, elementType)
          THEN Append(components, elementType) ELSE components
          : components \in {(IF context.component # ""
                             THEN <<sanitizeComponent(context.component)>> ELSE <<>>)
                            \o extractSemanticParts(element)},
            elementType \in {getElementType(element)} })

\* steps 4 and 5 of generate: the base id
generateBaseId(element, context) ==
    The({ IF context.prefix # ""
          THEN applyPrefix(combined, context.prefix, context.namingStrategy)
          ELSE combined
          : combined \in {combineComponents(generateComponents(element, context),
                                            context.namingStrategy)} })

generate(element, context, timestamp) ==
    sanitizeTestId(
        resolveConflicts(generateBaseId(element, context), context.existingIds, timestamp),
        GENERATE_MAX_LENGTH)


----------------------------------------------------------------------------
(* VueParser: the single-file-component parser.  Source text is a string;  *)
(* line and column numbers are the numbers the code computes (array        *)
(* indexes count from 0), and the characters of a string are read at       *)
(* index + 1.                                                              *)

Letters == LowerSet \cup UpperSet
TagNameChars == Letters \cup DigitSet \cup {"-"}
\* the character class [:\w-@]
AttrNameChars == Letters \cup DigitSet \cup {"_", ":", "-", "@"}
Quotes == {"\"", "'"}

\* s has the text sub at index i (counted from 1)
HasAt(s, i, sub) == i >= 1 /\ i + Len(sub) - 1 <= Len(s) /\ SubSeq(s, i, i + Len(sub) - 1) = sub

\* lines[i] of a JavaScript array, i counted from 0
LineAt(lines, i) == lines[i + 1]

NoSection == [present |-> FALSE, content |-> "", startLine |-> 0, endLine |-> 0]
NoSections == [name \in {"template", "script", "style"} |-> NoSection]

saveSection(sections, sectionName, content, startLine) ==
    [sections EXCEPT ![sectionName] =
        [present |-> TRUE,
         content |-> join(content, "\n"),
         startLine |-> startLine,
         endLine |-> startLine + Len(content) - 1]]

\* the section a line opens ("" when it opens none)
SectionOpened(trimmedLine) ==
    CASE startsWith(trimmedLine, "<template") -> "template"
      [] startsWith(trimmedLine, "<script") -> "script"
      [] startsWith(trimmedLine, "<style") -> "style"
      [] OTHER -> ""

SectionClosed(trimmedLine) ==
    \/ startsWith(trimmedLine, "</template>")
    \/ startsWith(trimmedLine, "</script>")
    \/ startsWith(trimmedLine, "</style>")

\* one round of the loop of parseSFC, on line i
parseSFCLine(st, line, i) ==
    The({ IF SectionOpened(trimmedLine) # ""
          THEN [sections |-> IF st.currentSection # ""
                             THEN saveSection(st.sections, st.currentSection,
                                              st.currentContent, st.startLine)
                             ELSE st.sections,
                currentSection |-> SectionOpened(trimmedLine),
                currentContent |-> <<>>,
                startLine |-> i + 1]
          ELSE IF SectionClosed(trimmedLine)
          THEN IF st.currentSection # ""
               THEN [sections |-> saveSection(st.sections, st.currentSection,
                                              st.currentContent, st.startLine),
                     currentSection |-> "",
                     currentContent |-> <<>>,
                     startLine |-> st.startLine]
               ELSE st
          ELSE IF st.currentSection # ""
          THEN [st EXCEPT !.currentContent = Append(@, line)]
          ELSE st
          : trimmedLine \in {trim(line)} })

RECURSIVE parseSFCLoop(_, _)
\* the state of the loop of parseSFC after the lines 0 .. upto - 1
parseSFCLoop(lines, upto) ==
    IF upto = 0
    THEN [sections |-> NoSections, currentSection |-> "",
          currentContent |-> <<>>, startLine |-> 0]
    ELSE The({ parseSFCLine(st, LineAt(lines, upto - 1), upto - 1)
               : st \in {parseSFCLoop(lines, upto - 1)} })

parseSFC(content) ==
    The({ The({ IF st.currentSection # ""
                THEN saveSection(st.sections, st.currentSection,
                                 st.currentContent, st.startLine)
                ELSE st.sections
                : st \in {parseSFCLoop(lines, Len(lines))} })
          : lines \in {split(content, "\n")} })

\* The matches of /<([a-zA-Z][a-zA-Z0-9-]*)\s*([^>]*)>/g in a line, searched
\* from index `from` on: a "<" followed by a letter matches up to the first
\* ">" after it; the search resumes after the match.
RECURSIVE tagMatchesFrom(_, _)
tagMatchesFrom(line, from) ==
    The({ IF starts = {} THEN <<>>
          ELSE The({ The({ <<[index |-> start - 1,
                              fullMatch |-> SubSeq(line, start, close),
                              tagName |-> SubSeq(line, start + 1, nameEnd),
                              attributesString |->
                                  SubSeq(line, SkipWhile(line, nameEnd + 1, WhiteSpace),
                                         close - 1)]>>
                           \o tagMatchesFrom(line, close + 1)
                           : nameEnd \in {SkipWhile(line, start + 1, TagNameChars) - 1},
                             close \in {SkipUntil(line, start + 1, {">"})} })
                     : start \in {MinOf(starts)} })
          : starts \in {{i \in from..(Len(line) - 1) :
                            /\ Ch(line, i) = "<"
                            /\ Ch(line, i + 1) \in Letters
                            /\ SkipUntil(line, i + 1, {">"}) <= Len(line)}} })

\* line.match(new RegExp(`<${tagName}[^>]*>([^<]*)</${tagName}>`)): the text
\* of the capture group of the first match, trimmed; "" when nothing matches
contentMatch(line, tagName) ==
    The({ IF starts = {} THEN ""
          ELSE The({ trim(SubSeq(line, close + 1, SkipUntil(line, close + 1, {"<"}) - 1))
                     : close \in {SkipUntil(line, MinOf(starts) + Len(tagName) + 1, {">"})} })
          : starts \in {{i \in 1..Len(line) :
                /\ HasAt(line, i, "<" \o tagName)
                /\ \E close \in {SkipUntil(line, i + Len(tagName) + 1, {">"})} :
                      /\ close <= Len(line)
                      /\ HasAt(line, SkipUntil(line, close + 1, {"<"}),
                               "</" \o tagName \o ">")}} })

\* The matches of /([:\w-@]+)(?:=["']([^"']*)["'])?/g, as <<name, value>>
\* pairs in the order of the text
RECURSIVE attrMatchesFrom(_, _)
attrMatchesFrom(s, from) ==
    The({ IF start > Len(s) THEN <<>>
          ELSE The({ The({ IF HasAt(s, nameEnd + 1, "=")
                              /\ Ch(s, nameEnd + 2) \in Quotes
                              /\ valueEnd <= Len(s)
                           THEN <<<<SubSeq(s, start, nameEnd),
                                    SubSeq(s, nameEnd + 3, valueEnd - 1)>>>>
                                    \o attrMatchesFrom(s, valueEnd + 1)
                           ELSE <<<<SubSeq(s, start, nameEnd), "">>>>
                                    \o attrMatchesFrom(s, nameEnd + 1)
                           : valueEnd \in {SkipUntil(s, nameEnd + 3, Quotes)} })
                     : nameEnd \in {SkipWhile(s, start, AttrNameChars) - 1} })
          : start \in {SkipUntil(s, from, AttrNameChars)} })

\* attributes[attrName] = attrValue for each match: the last match of a name
\* decides its value
parseAttributes(attributesString) ==
    IF trim(attributesString) = "" THEN NoAttributes
    ELSE The({ [name \in {matches[k][1] : k \in 1..Len(matches)} |->
                   matches[MaxOf({k \in 1..Len(matches) : matches[k][1] = name})][2]]
               : matches \in {attrMatchesFrom(attributesString, 1)} })

\* ValidationUtils.validateElement(element).valid
validateElement(element) ==
    /\ element.tag # ""
    /\ element.position.line >= 0
    /\ element.position.column >= 0

\* the elements parseTemplate pushes for the line i of the template
parseTemplateLine(line, i, baseLineNumber) ==
    IF trim(line) = "" \/ startsWith(trim(line), "<!--") THEN <<>>
    ELSE The({ SelectSeq(
                   [k \in 1..Len(kept) |->
                       [tag |-> kept[k].tagName,
                        attributes |-> parseAttributes(kept[k].attributesString),
                        content |-> contentMatch(line, kept[k].tagName),
                        position |-> [line |-> baseLineNumber + i + 1,
                                      column |-> kept[k].index + 1,
                                      index |-> kept[k].index],
                        framework |-> "vue"]],
                   validateElement)
               : kept \in {SelectSeq(tagMatchesFrom(line, 1),
                                     LAMBDA m : ~endsWith(m.fullMatch, "/>"))} })

RECURSIVE parseTemplateLines(_, _, _)
\* the elements of the lines 0 .. upto - 1 of the template
parseTemplateLines(lines, upto, baseLineNumber) ==
    IF upto = 0 THEN <<>>
    ELSE parseTemplateLines(lines, upto - 1, baseLineNumber)
             \o parseTemplateLine(LineAt(lines, upto - 1), upto - 1, baseLineNumber)

parseTemplate(templateContent, baseLineNumber) ==
    The({ parseTemplateLines(lines, Len(lines), baseLineNumber)
          : lines \in {split(templateContent, "\n")} })

\* `${n}` for an integer n
intToString(n) == IF n < 0 THEN "-" \o numberToString(0 - n) ELSE numberToString(n)

\* a function that returns value, and one that throws new Error(message)
Returned(value) == [ok |-> TRUE, value |-> value, error |-> ""]
Thrown(message) == [ok |-> FALSE, value |-> "", error |-> "Error: " \o message]

\* line.match(new RegExp(`<${tagName}(\\s[^>]*)?>`)): the first and last
\* index (counted from 1) of the first match, <<0, 0>> when nothing matches
openingTagMatch(line, tagName) ==
    The({ IF starts = {} THEN <<0, 0>>
          ELSE The({ <<start,
                       IF Ch(line, start + Len(tagName) + 1) \in WhiteSpace
                       THEN SkipUntil(line, start + Len(tagName) + 1, {">"})
                       ELSE start + Len(tagName) + 1>>
                     : start \in {MinOf(starts)} })
          : starts \in {{i \in 1..Len(line) :
                /\ HasAt(line, i, "<" \o tagName)
                /\ \/ HasAt(line, i + Len(tagName) + 1, ">")
                   \/ /\ Ch(line, i + Len(tagName) + 1) \in WhiteSpace
                      /\ SkipUntil(line, i + Len(tagName) + 1, {">"}) <= Len(line)}} })

\* new RegExp(`\\s${attribute}=`).test(tag)
hasAttribute(tag, attribute) ==
    \E i \in 1..Len(tag) : Ch(tag, i) \in WhiteSpace /\ HasAt(tag, i + 1, attribute \o "=")

\* tag.replace(new RegExp(`(${attribute}=)(["'])([^"']*)(["'])`), `$1$2${value}$4`);
\* the values the model passes hold no "$"
updateAttribute(tag, attribute, value) ==
    The({ IF starts = {} THEN tag
          ELSE The({ SubSeq(tag, 1, valueStart - 1) \o value
                         \o SubSeq(tag, SkipUntil(tag, valueStart, Quotes), Len(tag))
                     : valueStart \in {MinOf(starts) + Len(attribute) + 2} })
          : starts \in {{i \in 1..Len(tag) :
                /\ HasAt(tag, i, attribute \o "=")
                /\ Ch(tag, i + Len(attribute) + 1) \in Quotes
                /\ SkipUntil(tag, i + Len(attribute) + 2, Quotes) <= Len(tag)}} })

\* the attribute inserted before the closing ">" of the tag
addAttribute(tag, attribute, value) ==
    SubSeq(tag, 1, Len(tag) - 1) \o " " \o attribute \o "=\"" \o value \o "\""
        \o SubSeq(tag, Len(tag), Len(tag))

\* line.replace(tagMatch[0], updatedTag), the match being at first .. last;
\* the lines the model passes hold no "$"
replaceMatch(line, first, last, updatedTag) ==
    SubSeq(line, 1, first - 1) \o updatedTag \o SubSeq(line, last + 1, Len(line))

applyToLine(line, transformation) ==
    The({ IF m[1] = 0
          THEN Thrown("Could not find opening tag <" \o transformation.element.tag
                          \o "> in line")
          ELSE The({ Returned(replaceMatch(line, m[1], m[2],
                         IF hasAttribute(tag, transformation.attribute)
                         THEN updateAttribute(tag, transformation.attribute,
                                              transformation.value)
                         ELSE addAttribute(tag, transformation.attribute,
                                           transformation.value)))
                     : tag \in {SubSeq(line, m[1], m[2])} })
          : m \in {openingTagMatch(line, transformation.element.tag)} })

applyTransformationToTemplate(templateContent, transformation, relativeLineNumber) ==
    IF transformation.type # "add-attribute"
    THEN Thrown("Unsupported transformation type: " \o transformation.type)
    ELSE The({ IF relativeLineNumber < 0 \/ relativeLineNumber >= Len(lines)
               THEN Thrown("Invalid line number: " \o intToString(relativeLineNumber))
               ELSE The({ IF applied.ok
                          THEN Returned(join([lines EXCEPT ![relativeLineNumber + 1] =
                                                  applied.value], "\n"))
                          ELSE applied
                          : applied \in {applyToLine(LineAt(lines, relativeLineNumber),
                                                     transformation)} })
               : lines \in {split(templateContent, "\n")} })

\* Array.prototype.slice(from) of an array of lines, from counted from 0
sliceLines(lines, from) ==
    IF from >= Len(lines) THEN <<>> ELSE SubSeq(lines, MaxOf({from, 0}) + 1, Len(lines))

reconstructSFC(originalContent, sections, newTemplateContent) ==
    IF ~sections["template"].present THEN originalContent
    ELSE The({ join(sliceFirst(lines, sections["template"].startLine)
                        \o split(newTemplateContent, "\n")
                        \o sliceLines(lines, sections["template"].endLine + 1),
                    "\n")
               : lines \in {split(originalContent, "\n")} })

\* a ParseError / TransformError
Diagnostic(message, severity, position) ==
    [message |-> message, severity |-> severity, position |-> position]

VueParse(content) ==
    The({ IF ~sections["template"].present
          THEN [elements |-> <<>>,
                errors |-> <<Diagnostic("No template section found in Vue Single File Component",
                                        "warning", NoPosition)>>]
          ELSE [elements |-> parseTemplate(sections["template"].content,
                                           sections["template"].startLine),
                errors |-> <<>>]
          : sections \in {parseSFC(content)} })

\* sortTransformations with the comparator turned round: ascending by line
sortTransformationsAscending(transformations, templateStartLine) ==
    [r \in 1..Len(transformations) |->
        transformations[CHOOSE i \in 1..Len(transformations) :
            Cardinality({j \in 1..Len(transformations) :
                \/ transformations[j].position.line - templateStartLine
                       < transformations[i].position.line - templateStartLine
                \/ /\ transformations[j].position.line = transformations[i].position.line
                   /\ j < i}) = r - 1]]

\* [...transformations].sort((a, b) => bLine - aLine): descending by line, the
\* sort being stable
sortTransformations(transformations, templateStartLine) ==
    [r \in 1..Len(transformations) |->
        transformations[CHOOSE i \in 1..Len(transformations) :
            Cardinality({j \in 1..Len(transformations) :
                \/ transformations[j].position.line - templateStartLine
                       > transformations[i].position.line - templateStartLine
                \/ /\ transformations[j].position.line = transformations[i].position.line
                   /\ j < i}) = r - 1]]

\* one round of the loop of transform: st holds modifiedTemplate, errors and
\* the log of the rounds (the transformation taken, its relativeLineNumber)
vueTransformStep(st, transformation, templateStartLine) ==
    IF transformation.position = NoPosition
    THEN [st EXCEPT
            !.errors = Append(@, Diagnostic(
                "Failed to apply transformation: TypeError: Cannot read properties of undefined (reading 'line')",
                "error", NoPosition)),
            !.rounds = Append(@, [transformation |-> transformation,
                                  relativeLineNumber |-> -1, applied |-> FALSE])]
    ELSE The({ The({ IF result.ok
                     THEN [modifiedTemplate |-> result.value,
                           errors |-> st.errors,
                           rounds |-> Append(st.rounds,
                               [transformation |-> transformation,
                                relativeLineNumber |-> relativeLineNumber,
                                applied |-> TRUE])]
                     ELSE [modifiedTemplate |-> st.modifiedTemplate,
                           errors |-> Append(st.errors, Diagnostic(
                               "Failed to apply transformation: " \o result.error,
                               "error", transformation.position)),
                           rounds |-> Append(st.rounds,
                               [transformation |-> transformation,
                                relativeLineNumber |-> relativeLineNumber,
                                applied |-> FALSE])]
                     : result \in {applyTransformationToTemplate(
                                       st.modifiedTemplate, transformation,
                                       relativeLineNumber)} })
               : relativeLineNumber \in {transformation.position.line - templateStartLine} })

RECURSIVE vueTransformLoop(_, _, _, _)
\* the state of the loop after the first `upto` sorted transformations
vueTransformLoop(template, sorted, upto, templateStartLine) ==
    IF upto = 0
    THEN [modifiedTemplate |-> template, errors |-> <<>>, rounds |-> <<>>]
    ELSE The({ vueTransformStep(st, sorted[upto], templateStartLine)
               : st \in {vueTransformLoop(template, sorted, upto - 1, templateStartLine)} })

\* TransformFailure reporting the failure as a warning
TransformFailureAsWarning(content, message) ==
    [code |-> content, transformations |-> <<>>,
     errors |-> <<Diagnostic(message, "warning", NoPosition)>>, rounds |-> <<>>]

\* The whole-file failure of transform: the original, no transformation and
\* one error
TransformFailure(content, message) ==
    [code |-> content, transformations |-> <<>>,
     errors |-> <<Diagnostic(message, "error", NoPosition)>>, rounds |-> <<>>]

\* VueParser.transform; rounds is the log of its loop, which it does not return
VueTransform(content, transformations) ==
    The({ IF ~sections["template"].present
          THEN TransformFailure(content, "No template section found for transformation")
          ELSE IF Len(transformations) >= 2
                  /\ \E k \in 1..Len(transformations) :
                         transformations[k].position = NoPosition
          \* the comparator of sort reads a.position.line of every member
          THEN TransformFailure(content,
                   "Transform error: TypeError: Cannot read properties of undefined (reading 'line')")
          ELSE The({ [code |-> reconstructSFC(content, sections, st.modifiedTemplate),
                      transformations |-> transformations,
                      errors |-> st.errors,
                      rounds |-> st.rounds]
                     : st \in {vueTransformLoop(
                                   sections["template"].content,
                                   sortTransformations(transformations,
                                                       sections["template"].startLine),
                                   Len(transformations),
                                   sections["template"].startLine)} })
          : sections \in {parseSFC(content)} })

----------------------------------------------------------------------------
(* ReactParser.  The parser and the printer are @babel's: the model keeps  *)
(* of a source text what they make of it.  A text is a record: syntaxOk    *)
(* (parse accepts it), printable (generate prints its tree) and nodes, the *)
(* JSX nodes of its tree in the order traverse enters them, each with the  *)
(* index of the JSX node around it (0 at the top).  The printed text is    *)
(* the text with the changed nodes; its nodes keep their locations.        *)
(* throwing holds the indexes of the nodes at which the visit throws: the  *)
(* extraction of a JSXElement, the inner traversal of a JSXFragment.       *)

\* this.getPositionFromPath(path)
getPositionFromPath(node) == node.loc

RECURSIVE jsxAncestors(_, _)
jsxAncestors(nodes, k) ==
    IF nodes[k].parent = 0 THEN {}
    ELSE {nodes[k].parent} \cup jsxAncestors(nodes, nodes[k].parent)

\* extractElementFromJSX: the element of a JSXElement node, as a list of
\* one element, or of none where the code returns null
extractElementFromJSX(node) ==
    IF ~node.identifier THEN <<>>
    ELSE IF node.tag = "" THEN <<>>
    ELSE <<[tag |-> node.tag,
            attributes |-> node.attributes,
            content |-> node.content,
            position |-> getPositionFromPath(node),
            framework |-> "react"]>>

RECURSIVE extractAll(_, _, _)
\* the elements of the JSXElement nodes among nodes[k] for k in ks, in order
extractAll(nodes, ks, from) ==
    IF from > Len(nodes) THEN <<>>
    ELSE (IF from \in ks /\ nodes[from].type = "JSXElement"
          THEN extractElementFromJSX(nodes[from]) ELSE <<>>)
             \o extractAll(nodes, ks, from + 1)

\* extractElementsFromFragment: path.traverse over what the fragment holds;
\* an element whose extraction throws is logged and left out
extractElementsFromFragment(content, k) ==
    extractAll(content.nodes,
               {d \in 1..Len(content.nodes) : k \in jsxAncestors(content.nodes, d)}
                   \ content.throwing,
               1)

RECURSIVE reactVisit(_, _)
\* what the visitors of parse push to elements while traverse enters the
\* nodes from k on
reactVisit(content, k) ==
    IF k > Len(content.nodes) THEN <<>>
    ELSE (IF k \in content.throwing THEN <<>>
          ELSE IF content.nodes[k].type = "JSXElement"
          THEN extractElementFromJSX(content.nodes[k])
          ELSE extractElementsFromFragment(content, k))
             \o reactVisit(content, k + 1)

RECURSIVE reactVisitErrors(_, _)
\* what the catch blocks of the visitors push to errors from the node k on
reactVisitErrors(content, k) ==
    IF k > Len(content.nodes) THEN <<>>
    ELSE (IF k \notin content.throwing THEN <<>>
          ELSE IF content.nodes[k].type = "JSXElement"
          THEN <<Diagnostic("Failed to extract JSX element: Error", "error",
                            getPositionFromPath(content.nodes[k]))>>
          ELSE <<Diagnostic("Failed to process JSX fragment: Error", "warning",
                            getPositionFromPath(content.nodes[k]))>>)
             \o reactVisitErrors(content, k + 1)

\* ReactParser.parse answering a syntax error with a warning
ReactParseLenient(content) ==
    IF ~content.syntaxOk
    THEN [elements |-> <<>>,
          errors |-> <<Diagnostic("Parse error: SyntaxError", "warning", NoPosition)>>]
    ELSE [elements |-> reactVisit(content, 1), errors |-> reactVisitErrors(content, 1)]

ReactParse(content) ==
    IF ~content.syntaxOk
    THEN [elements |-> <<>>,
          errors |-> <<Diagnostic("Parse error: SyntaxError", "error", NoPosition)>>]
    ELSE [elements |-> reactVisit(content, 1), errors |-> reactVisitErrors(content, 1)]

\* applyTransformationToJSX on the attributes of an opening element
applyTransformationToJSX(attributes, transformation) ==
    IF transformation.type # "add-attribute"
    THEN Thrown("Unsupported transformation type: " \o transformation.type)
    ELSE Returned([name \in DOMAIN attributes \cup {transformation.attribute} |->
                      IF name = transformation.attribute THEN transformation.value
                      ELSE attributes[name]])

RECURSIVE reactApplyAll(_, _, _)
\* elementTransformations.forEach on one opening element: its attributes and
\* the errors pushed after the first `upto` of them
reactApplyAll(node, elementTransformations, upto) ==
    IF upto = 0 THEN [attributes |-> node.attributes, errors |-> <<>>]
    ELSE The({ The({ IF result.ok
                     THEN [st EXCEPT !.attributes = result.value]
                     ELSE [st EXCEPT !.errors = Append(@, Diagnostic(
                               "Failed to apply transformation: " \o result.error,
                               "error", getPositionFromPath(node)))]
                     : result \in {applyTransformationToJSX(
                                       st.attributes, elementTransformations[upto])} })
               : st \in {reactApplyAll(node, elementTransformations, upto - 1)} })

\* the JSXOpeningElement visitor of transform on one node
reactTransformNode(node, transformations) ==
    IF node.type # "JSXElement" \/ getPositionFromPath(node) = NoPosition
    THEN [attributes |-> node.attributes, errors |-> <<>>]
    ELSE The({ reactApplyAll(node, elementTransformations, Len(elementTransformations))
               : elementTransformations \in
                   {SelectSeq(transformations, LAMBDA tr :
                       /\ tr.position.line = getPositionFromPath(node).line
                       /\ tr.position.column = getPositionFromPath(node).column)} })

RECURSIVE reactErrors(_, _)
reactErrors(visited, k) ==
    IF k > Len(visited) THEN <<>> ELSE visited[k].errors \o reactErrors(visited, k + 1)

ReactTransform(content, transformations) ==
    IF ~content.syntaxOk
    THEN TransformFailure(content, "Transform error: SyntaxError")
    ELSE IF \E k \in 1..Len(transformations) : transformations[k].position = NoPosition
    THEN TransformFailure(content,
             "Transform error: TypeError: Cannot read properties of undefined (reading 'line')")
    ELSE IF ~content.printable
    THEN TransformFailure(content, "Transform error: Error")
    ELSE The({ [code |-> [content EXCEPT !.nodes =
                             [k \in 1..Len(content.nodes) |->
                                 [content.nodes[k] EXCEPT
                                     !.attributes = visited[k].attributes]]],
                transformations |-> transformations,
                errors |-> reactErrors(visited, 1),
                rounds |-> <<>>]
               : visited \in {[k \in 1..Len(content.nodes) |->
                                 reactTransformNode(content.nodes[k], transformations)]} })

----------------------------------------------------------------------------
(* ValidationUtils.shouldAddTestId                                         *)

skipElements == {"html", "head", "meta", "title", "style", "script", "link"}

shouldAddTestId(element, includeElementTypes) ==
    /\ Attr(element, "data-testid") = ""
    /\ toLowerCase(element.tag) \in includeElementTypes
    /\ toLowerCase(element.tag) \notin skipElements

----------------------------------------------------------------------------
(* FileScanner and parser detection                                        *)

containsText(s, sub) == \E i \in 1..Len(s) : HasAt(s, i, sub)

\* path.basename(filePath)
basename(filePath) ==
    The({ IF slashes = {} THEN filePath
          ELSE SubSeq(filePath, MaxOf(slashes) + 1, Len(filePath))
          : slashes \in {{i \in 1..Len(filePath) : Ch(filePath, i) = "/"}} })

\* path.extname(filePath): from the last "." of the base name on, "" when
\* there is none or when it is the first character of the base name
extname(filePath) ==
    The({ The({ IF dots = {} \/ MaxOf(dots) = 1 THEN ""
                ELSE SubSeq(base, MaxOf(dots), Len(base))
                : dots \in {{i \in 1..Len(base) : Ch(base, i) = "."}} })
          : base \in {basename(filePath)} })

FRAMEWORK_EXTENSIONS == {".jsx", ".tsx", ".vue", ".html", ".ts", ".js"}

isSupported(filePath) == toLowerCase(extname(filePath)) \in FRAMEWORK_EXTENSIONS

\* detectFramework(filePath), called without a packageJson
detectFramework(filePath) ==
    The({ The({ IF ext = ".vue" THEN "vue"
                ELSE IF ext \in {".jsx", ".tsx"} THEN "react"
                ELSE IF containsText(filename, ".component.")
                        \/ containsText(filename, ".template.") THEN "angular"
                ELSE IF ext = ".html"
                THEN (IF containsText(filename, "component") THEN "angular" ELSE "html")
                ELSE IF ext \in {".ts", ".js"} THEN "react"
                ELSE "html"
                : filename \in {toLowerCase(basename(filePath))} })
          : ext \in {toLowerCase(extname(filePath))} })

reactCanParse(filePath) == \E ext \in {".jsx", ".tsx", ".js", ".ts"} : endsWith(filePath, ext)
vueCanParse(filePath) == endsWith(filePath, ".vue")

\* detectParser(filePath): "" stands for null
detectParser(filePath) ==
    IF reactCanParse(filePath) THEN "react"
    ELSE IF vueCanParse(filePath) THEN "vue"
    ELSE ""

ParserParse(parser, content) ==
    IF parser = "react" THEN ReactParse(content) ELSE VueParse(content)

ParserTransform(parser, content, transformations) ==
    IF parser = "react" THEN ReactTransform(content, transformations)
    ELSE VueTransform(content, transformations)

----------------------------------------------------------------------------
(* AutoTestIDCoreImpl.processFile                                          *)

DEFAULT_INCLUDE == {"button", "input", "select", "textarea", "form", "a", "div", "span"}
DEFAULT_MAX_ID_LENGTH == 50

DEFAULT_CONFIG ==
    [namingStrategy |-> [type |-> "kebab-case", customTransform |-> ""],
     prefix |-> "test",
     includeElementTypes |-> DEFAULT_INCLUDE,
     maxIdLength |-> DEFAULT_MAX_ID_LENGTH,
     preserveExisting |-> TRUE]

NoMetrics == [elementsFound |-> 0, elementsTransformed |-> 0,
              idGenerated |-> 0, conflictsResolved |-> 0]

\* a result with success: false
FailedResult(filePath, errors, elementsFound) ==
    [filePath |-> filePath, success |-> FALSE, transformations |-> <<>>,
     errors |-> errors,
     metrics |-> [NoMetrics EXCEPT !.elementsFound = elementsFound]]

\* generatedId !== generatedId.replace(/-\d+$/, '')
hasNumericSuffix(id) ==
    \E i \in 1..(Len(id) - 1) :
        Ch(id, i) = "-" /\ \A j \in (i + 1)..Len(id) : Ch(id, j) \in DigitSet

\* the existing test ids of all parsed elements
seedExistingIds(elements) ==
    {Attr(elements[k], "data-testid") : k \in 1..Len(elements)} \ {""}

\* one round of elementsToProcess.forEach
planStep(st, element, effectiveConfig, timestamp) ==
    IF element.position = NoPosition THEN st
    ELSE The({ [existingIds |-> st.existingIds \cup {generatedId},
                conflictsResolved |-> st.conflictsResolved
                                          + (IF hasNumericSuffix(generatedId) THEN 1 ELSE 0),
                transformations |-> Append(st.transformations,
                    [type |-> "add-attribute",
                     element |-> element,
                     attribute |-> "data-testid",
                     value |-> generatedId,
                     position |-> element.position])]
               : generatedId \in {generate(element,
                                     [component |-> "",
                                      existingIds |-> st.existingIds,
                                      namingStrategy |-> effectiveConfig.namingStrategy,
                                      prefix |-> effectiveConfig.prefix],
                                     timestamp)} })

RECURSIVE planLoop(_, _, _, _, _)
\* the planner's state after the first `upto` elements to process
planLoop(elementsToProcess, upto, existingIds, effectiveConfig, timestamp) ==
    IF upto = 0
    THEN [existingIds |-> existingIds, conflictsResolved |-> 0, transformations |-> <<>>]
    ELSE The({ planStep(st, elementsToProcess[upto], effectiveConfig, timestamp)
               : st \in {planLoop(elementsToProcess, upto - 1, existingIds,
                                  effectiveConfig, timestamp)} })

plan(elements, effectiveConfig, timestamp) ==
    The({ planLoop(elementsToProcess, Len(elementsToProcess),
                   seedExistingIds(elements), effectiveConfig, timestamp)
          : elementsToProcess \in
              {SelectSeq(elements,
                         LAMBDA e : shouldAddTestId(e, effectiveConfig.includeElementTypes))} })

\* the result of the catch of processFile
ProcessingError(filePath, message) ==
    FailedResult(filePath,
                 <<Diagnostic("Processing error: " \o message, "error", NoPosition)>>, 0)

\* strategy.customTransform throws when generate calls it for the element
generateThrows(element, effectiveConfig) ==
    /\ effectiveConfig.namingStrategy.type = "custom"
    /\ effectiveConfig.namingStrategy.customTransform = "throws"
    /\ Len(generateComponents(element,
               [component |-> "", existingIds |-> {},
                namingStrategy |-> effectiveConfig.namingStrategy,
                prefix |-> effectiveConfig.prefix])) > 0

\* idGenerator.generate throws for one of the elements to process
planThrows(elements, effectiveConfig) ==
    \E k \in 1..Len(elements) :
        /\ shouldAddTestId(elements[k], effectiveConfig.includeElementTypes)
        /\ elements[k].position # NoPosition
        /\ generateThrows(elements[k], effectiveConfig)

\* the test that forgets mergedOptions.dryRun
appliesTransformationsAlways(options, transformations) ==
    Len(transformations) > 0

\* !mergedOptions.dryRun && transformations.length > 0
appliesTransformations(options, transformations) ==
    ~options.dryRun /\ Len(transformations) > 0

\* the writes with the source file written first and the backup after it
writeRequestsSourceFirst(filePath, options, content, code) ==
    <<[path |-> filePath, content |-> code]>>
        \o (IF options.backup
            THEN <<[path |-> filePath \o ".bak", content |-> content]>>
            ELSE <<>>)

\* the writes processFile asks of fs.writeFile after a transform without
\* errors, in the order it awaits them
writeRequests(filePath, options, content, code) ==
    (IF options.backup
     THEN <<[path |-> filePath \o ".bak", content |-> content]>>
     ELSE <<>>)
        \o <<[path |-> filePath, content |-> code]>>

RECURSIVE fulfilled(_, _)
\* the writes done: fs.writeFile rejects for an unwritable path, and the
\* rejection ends the try block
fulfilled(requests, unwritable) ==
    IF Len(requests) = 0 THEN <<>>
    ELSE IF Head(requests).path \in unwritable THEN <<>>
    ELSE <<Head(requests)>> \o fulfilled(Tail(requests), unwritable)

\* what a call of processFile makes of the disk: its result and, in order,
\* what it writes.  disk maps the paths that exist to their texts, and
\* fs.writeFile rejects for the paths of unwritable.
processFileOutcome(filePath, options, effectiveConfig, disk, unwritable, timestamp) ==
    IF ~isSupported(filePath)
    THEN [result |-> FailedResult(filePath,
                         <<Diagnostic("Unsupported file type: " \o filePath,
                                      "error", NoPosition)>>, 0),
          written |-> <<>>]
    ELSE IF detectParser(filePath) = ""
    THEN [result |-> FailedResult(filePath,
                         <<Diagnostic("No parser available for framework: "
                                          \o detectFramework(filePath),
                                      "error", NoPosition)>>, 0),
          written |-> <<>>]
    ELSE IF filePath \notin DOMAIN disk
    \* fs.readFile rejects
    THEN [result |-> ProcessingError(filePath, "Error: ENOENT: no such file or directory"),
          written |-> <<>>]
    ELSE The({ IF Len(parseResult.errors) > 0
               THEN [result |-> FailedResult(filePath, parseResult.errors,
                                             Len(parseResult.elements)),
                     written |-> <<>>]
               ELSE IF planThrows(parseResult.elements, effectiveConfig)
               THEN [result |-> ProcessingError(filePath, "Error"), written |-> <<>>]
               ELSE The({ The({ The({ The({
                      IF Len(done) < Len(requests)
                      THEN [result |-> ProcessingError(filePath,
                                           "Error: EACCES: permission denied"),
                            written |-> done]
                      ELSE [result |->
                               [filePath |-> filePath,
                                success |-> TRUE,
                                transformations |-> planned.transformations,
                                errors |-> transformResult.errors,
                                metrics |->
                                    [elementsFound |-> Len(parseResult.elements),
                                     elementsTransformed |-> Len(planned.transformations),
                                     idGenerated |-> Len(planned.transformations),
                                     conflictsResolved |-> planned.conflictsResolved]],
                            written |-> done]
                      : done \in {fulfilled(requests, unwritable)} })
                    : requests \in
                        {IF appliesTransformations(options, planned.transformations)
                            /\ Len(transformResult.errors) = 0
                         THEN writeRequests(filePath, options, disk[filePath],
                                            transformResult.code)
                         ELSE <<>>} })
                  : transformResult \in
                      {IF appliesTransformations(options, planned.transformations)
                       THEN ParserTransform(detectParser(filePath), disk[filePath],
                                            planned.transformations)
                       ELSE [errors |-> <<>>]} })
                 : planned \in {plan(parseResult.elements, effectiveConfig, timestamp)} })
               : parseResult \in {ParserParse(detectParser(filePath), disk[filePath])} })

RECURSIVE writeAll(_, _, _)
\* the disk after the first `upto` writes
writeAll(disk, written, upto) ==
    IF upto = 0 THEN disk
    ELSE The({ [p \in DOMAIN before \cup {written[upto].path} |->
                   IF p = written[upto].path THEN written[upto].content ELSE before[p]]
               : before \in {writeAll(disk, written, upto - 1)} })

----------------------------------------------------------------------------
(* Inputs of the specifications                                            *)

MaxRequests == 13
MaxCalls == 2
MaxTransformations == 2
MaxPasses == 2

TimeStamps == {"lx3k9a2f"}

Kebab == [type |-> "kebab-case", customTransform |-> ""]
Camel == [type |-> "camelCase", customTransform |-> ""]
Snake == [type |-> "snake_case", customTransform |-> ""]
CustomUpper == [type |-> "custom", customTransform |-> "upper"]
CustomPlain == [type |-> "custom", customTransform |-> ""]
Strategies == {Kebab, Camel, Snake, CustomUpper, CustomPlain}

LadderBases ==
    {"test-btn",                                      \* 8 characters
     "btn",
     "loginForm",
     "test_login_form",
     "test-email-input-field-wrapper",                \* 30 characters
     "test-email-input-field-wrappers",               \* 31 characters
     "test-login-form-submit-cancel-primary-btn",     \* 41 characters
     "test-user-profile-settings-section-container-main"}

SignInLine == "<button type=\"submit\">Sign In</button>"
LoginFormLine == "<form name=\"login\">"
SaveLine == "<button>Save</button>"
EmailLine ==
    "<input name=\"user.email\" type=\"email\" placeholder=\"Enter your email address\">"
ProfileLine ==
    "<div id=\"profile-settings-section\" title=\"Account notification preferences\" class=\"sidebar wrapper\">"
SampleLines == {SignInLine, LoginFormLine, SaveLine, EmailLine, ProfileLine}

\* the element the template parser makes of a line that holds one
ElementOf(line) == parseTemplate(line, 0)[1]

VueLogin ==
    "<template>\n  <form name=\"login\">\n    <input type=\"email\" placeholder=\"Enter your email address\">\n    <button type=\"submit\">Sign In</button>\n  </form>\n</template>\n<script>\nexport default {}\n</script>"
VueInputs == "<template>\n<input type=\"email\">\n<input type=\"password\" />\n</template>"
VueSaves ==
    "<template>\n<button>Save</button>\n<button>Save</button>\n<button data-testid=\"test-save-btn\">Save</button>\n</template>\n<style>\n.a {}\n</style>"
VueEmpty == "<template>\n</template>\n<script>\nexport default {}\n</script>"
VueNoTemplate == "<script>\nexport default {}\n</script>"
VueNested ==
    "<template>\n<div>\n<template v-if=\"ok\">\n<span>Hi</span>\n<span>Yo</span>\n</template>\n</div>\n</template>"
VueProfiles ==
    "<template>\n" \o ProfileLine \o "\n" \o ProfileLine \o "\n</template>"

JsxNode(type, identifier, tag, attributes, content, line, column, parent) ==
    [type |-> type, identifier |-> identifier, tag |-> tag, attributes |-> attributes,
     content |-> content, loc |-> [line |-> line, column |-> column, index |-> 0],
     parent |-> parent]

\* <><div className="actions"><button>Save</button><button>Save</button></div></>
JsxFragment ==
    [syntaxOk |-> TRUE, printable |-> TRUE, throwing |-> {},
     nodes |-> <<JsxNode("JSXFragment", FALSE, "", NoAttributes, "", 3, 4, 0),
                 JsxNode("JSXElement", TRUE, "div",
                         [a \in {"className"} |-> "actions"], "", 4, 6, 1),
                 JsxNode("JSXElement", TRUE, "button", NoAttributes, "Save", 5, 8, 2),
                 JsxNode("JSXElement", TRUE, "button", NoAttributes, "Save", 6, 8, 2)>>]

\* <form name="login"><Form.Item/><button data-testid="test-save-btn">Save</button>
\* <button>Save</button></form>
JsxForm ==
    [syntaxOk |-> TRUE, printable |-> TRUE, throwing |-> {},
     nodes |-> <<JsxNode("JSXElement", TRUE, "form", [a \in {"name"} |-> "login"], "", 2, 4, 0),
                 JsxNode("JSXElement", FALSE, "", NoAttributes, "", 3, 6, 1),
                 JsxNode("JSXElement", TRUE, "button",
                         [a \in {"data-testid"} |-> "test-save-btn"], "Save", 4, 6, 1),
                 JsxNode("JSXElement", TRUE, "button", NoAttributes, "Save", 5, 6, 1)>>]

JsxBroken == [syntaxOk |-> FALSE, printable |-> FALSE, throwing |-> {}, nodes |-> <<>>]

JsxUnprintable ==
    [syntaxOk |-> TRUE, printable |-> FALSE, throwing |-> {},
     nodes |-> <<JsxNode("JSXElement", TRUE, "button", NoAttributes, "Save", 1, 0, 0)>>]

\* <div><><span>Hi</span></><button>Save</button></div>, the inner traversal
\* of the fragment throwing
JsxFaultyFragment ==
    [syntaxOk |-> TRUE, printable |-> TRUE, throwing |-> {2},
     nodes |-> <<JsxNode("JSXElement", TRUE, "div", NoAttributes, "", 2, 4, 0),
                 JsxNode("JSXFragment", FALSE, "", NoAttributes, "", 3, 6, 1),
                 JsxNode("JSXElement", TRUE, "span", NoAttributes, "Hi", 3, 8, 2),
                 JsxNode("JSXElement", TRUE, "button", NoAttributes, "Save", 4, 6, 1)>>]

\* <form><input type="email"/><button>Save</button></form>, the extraction of
\* the input throwing
JsxFaultyElement ==
    [syntaxOk |-> TRUE, printable |-> TRUE, throwing |-> {2},
     nodes |-> <<JsxNode("JSXElement", TRUE, "form", NoAttributes, "", 2, 4, 0),
                 JsxNode("JSXElement", TRUE, "input",
                         [a \in {"type"} |-> "email"], "", 3, 6, 1),
                 JsxNode("JSXElement", TRUE, "button", NoAttributes, "Save", 4, 6, 1)>>]

\* transformations a caller can pass for a parsed list of elements: anchored
\* at an element's recorded position or (up) one line above it, and three
\* that belong to no element of the file
Anchored(element, position) ==
    [type |-> "add-attribute", element |-> element, attribute |-> "data-testid",
     value |-> "test-a", position |-> position]

StrayElement ==
    [tag |-> "button", attributes |-> NoAttributes, content |-> "",
     position |-> [line |-> 2, column |-> 1, index |-> 0], framework |-> "vue"]

Strays ==
    {Anchored(StrayElement, StrayElement.position),
     Anchored(StrayElement, NoPosition),
     [Anchored(StrayElement, StrayElement.position) EXCEPT !.type = "remove-attribute"]}

Candidates(elements, up) ==
    {Anchored(elements[k], [elements[k].position EXCEPT !.line = @ - d])
        : k \in 1..Len(elements), d \in up} \cup Strays

\* the lists of at most MaxTransformations members of a set
ListsOf(S) == UNION {[1..n -> S] : n \in 0..MaxTransformations}

VueSources == {VueLogin, VueInputs, VueSaves, VueEmpty, VueNoTemplate, VueNested, VueProfiles}
JsxSources ==
    {JsxFragment, JsxForm, JsxBroken, JsxUnprintable, JsxFaultyFragment, JsxFaultyElement}

VuePath == "src/Login.vue"
JsxPath == "src/App.jsx"
HtmlPath == "index.html"

\* a custom strategy whose customTransform throws
CustomThrows == [type |-> "custom", customTransform |-> "throws"]

\* the configuration with the attributeName key of the configuration file
WithAttributeName(effectiveConfig, attributeName) ==
    [attributeName |-> attributeName] @@ effectiveConfig

Configs ==
    {WithAttributeName(c, "data-testid") :
        c \in {[DEFAULT_CONFIG EXCEPT !.namingStrategy = strategy,
                                      !.maxIdLength = maxIdLength]
                  : strategy \in {Kebab, Camel, Snake, CustomUpper},
                    maxIdLength \in {50, 20}}
              \cup {[DEFAULT_CONFIG EXCEPT !.preserveExisting = FALSE],
                    [DEFAULT_CONFIG EXCEPT !.namingStrategy = CustomThrows]}}
        \cup {WithAttributeName(DEFAULT_CONFIG, "data-analytics")}

Options == [dryRun : BOOLEAN, backup : BOOLEAN]

\* the sets of paths that cannot be written: none, a backup, a source file
ReadOnlySets == {{}, {VuePath \o ".bak"}, {JsxPath}}

----------------------------------------------------------------------------
(* The ladder: one base id requested again and again, each result added    *)
(* to existingIds by the caller.                                           *)

LadderIdle == lBase = "" /\ lIds = {} /\ lOut = <<>>

LadderInit ==
    /\ lBase \in LadderBases
    /\ lIds = {}
    /\ lOut = <<>>

LadderRequest ==
    /\ lBase # ""
    /\ Len(lOut) < MaxRequests
    /\ \E timestamp \in TimeStamps :
         \E resolved \in {resolveConflicts(lBase, lIds, timestamp)} :
             /\ lOut' = Append(lOut, resolved)
             /\ lIds' = lIds \cup {resolved}
    /\ UNCHANGED lBase

----------------------------------------------------------------------------
(* generate called on the element of a line of markup by a caller that     *)
(* adds each result to existingIds, as the planner does, and that inserts  *)
(* the attribute in the line.                                              *)

NoContext == [component |-> "", existingIds |-> {}, namingStrategy |-> Kebab, prefix |-> ""]

GenIdle == gCtx = NoContext /\ gCalls = <<>>

GenInit ==
    /\ gCtx \in [component : {"", "LoginForm"},
                 existingIds : {{}, {"test-save-btn", "testsavebtn"}},
                 namingStrategy : Strategies,
                 prefix : {"", "test"}]
    /\ gCalls = <<>>

GenerateCall(line) ==
    /\ Len(gCalls) < MaxCalls
    /\ \E timestamp \in TimeStamps, element \in {ElementOf(line)} :
         \E id \in {generate(element, gCtx, timestamp)} :
             /\ gCalls' = Append(gCalls,
                    [line |-> line,
                     element |-> element,
                     existingIds |-> gCtx.existingIds,
                     id |-> id,
                     rewritten |-> applyTransformationToTemplate(line,
                         [type |-> "add-attribute", element |-> element,
                          attribute |-> "data-testid", value |-> id,
                          position |-> element.position], 0).value])
             /\ gCtx' = [gCtx EXCEPT !.existingIds = @ \cup {id}]

----------------------------------------------------------------------------
(* transform called on a source text with a list of transformations       *)

TransformIdle ==
    tParser = "" /\ tContent = "" /\ tTransformations = <<>> /\ tResult = <<>>

TransformInit ==
    /\ tResult = <<>>
    /\ \/ \E content \in {VueInputs, VueSaves, VueEmpty, VueNoTemplate, VueNested} :
            /\ tParser = "vue"
            /\ tContent = content
            /\ tTransformations \in ListsOf(Candidates(VueParse(content).elements, {0, 1}))
       \/ \E content \in {JsxFragment, JsxBroken, JsxUnprintable} :
            /\ tParser = "react"
            /\ tContent = content
            /\ tTransformations \in ListsOf(Candidates(ReactParse(content).elements, {0}))

VueTransformCall ==
    /\ tParser = "vue"
    /\ tResult = <<>>
    /\ tResult' = <<VueTransform(tContent, tTransformations)>>
    /\ UNCHANGED <<tParser, tContent, tTransformations>>

ReactTransformCall ==
    /\ tParser = "react"
    /\ tResult = <<>>
    /\ tResult' = <<ReactTransform(tContent, tTransformations)>>
    /\ UNCHANGED <<tParser, tContent, tTransformations>>

----------------------------------------------------------------------------
(* processFile called again and again on the files that exist              *)

FilesIdle ==
    /\ files = <<>>
    /\ config = DEFAULT_CONFIG
    /\ passes = <<>>
    /\ writes = <<>>
    /\ readOnly = {}
TasksIdle == tasks = <<>>
BatchIdle == batch = <<>>
PlannerIdle == planner = <<>>
ResolvingIdle == resolving = <<>>
SanitizingIdle == sanitizing = <<>>
SplittingIdle == splitting = <<>>
CallsIdle == PlannerIdle /\ ResolvingIdle /\ SanitizingIdle /\ SplittingIdle

FilesInit ==
    /\ config \in Configs
    /\ passes = <<>>
    /\ writes = <<>>
    /\ readOnly \in ReadOnlySets
    /\ \/ \E content \in VueSources : files = [p \in {VuePath} |-> content]
       \/ \E content \in JsxSources : files = [p \in {JsxPath} |-> content]
       \/ files = [p \in {HtmlPath} |-> SaveLine]

ProcessFile(filePath, options) ==
    /\ Len(passes) < MaxPasses
    /\ \E timestamp \in TimeStamps :
         \E outcome \in {processFileOutcome(filePath, options, config, files,
                                            readOnly, timestamp)} :
             /\ passes' = Append(passes, [filePath |-> filePath,
                                          options |-> options,
                                          before |-> files[filePath],
                                          result |-> outcome.result,
                                          written |-> outcome.written])
             /\ files' = writeAll(files, outcome.written, Len(outcome.written))
             /\ writes' = writes \o outcome.written
    /\ UNCHANGED <<config, readOnly>>

----------------------------------------------------------------------------
(* processFile called on several files at once.  A call runs from one      *)
(* await to the next without interruption: up to fs.readFile, then from    *)
(* the text read up to the first fs.writeFile, then from one write to the  *)
(* next.  Each file has at most one call.                                  *)

OtherPath == "src/Other.vue"

\* the files on the disk when the calls are made
TaskFiles ==
    [p \in {VuePath, OtherPath, JsxPath} |->
        IF p = VuePath THEN VueSaves
        ELSE IF p = OtherPath THEN VueInputs
        ELSE JsxForm]

MaxTasks == 2

\* a result not returned yet
NoResult == FailedResult("", <<>>, 0)

NewTask(options) ==
    [options |-> options, pc |-> "called", requests |-> <<>>, result |-> NoResult]

TasksInit ==
    /\ files = TaskFiles
    /\ config = WithAttributeName(DEFAULT_CONFIG, "data-testid")
    /\ passes = <<>>
    /\ writes = <<>>
    /\ readOnly \in {{}, {VuePath \o ".bak"}}
    /\ \E called \in SUBSET DOMAIN TaskFiles :
         /\ called # {}
         /\ Cardinality(called) <= MaxTasks
         /\ \E options \in [called -> Options] :
                tasks = [p \in called |-> NewTask(options[p])]

\* the file reader that takes the text of the other component for the
\* text of src/Login.vue
readFileOther(disk, filePath) ==
    disk[IF filePath = VuePath THEN OtherPath ELSE filePath]

\* await fs.readFile(filePath, 'utf-8')
readFile(disk, filePath) ==
    disk[filePath]

\* from the call to the first await that leaves the process: the checks of
\* the file type and of the parser, and the request to read the file
TaskStart(p) ==
    /\ tasks[p].pc = "called"
    /\ IF ~isSupported(p) \/ detectParser(p) = ""
       THEN \E timestamp \in TimeStamps :
                tasks' = [tasks EXCEPT ![p].pc = "returned",
                              ![p].result = processFileOutcome(p, tasks[p].options, config,
                                                files, {}, timestamp).result]
       ELSE tasks' = [tasks EXCEPT ![p].pc = "reading"]
    /\ UNCHANGED <<files, config, passes, writes, readOnly>>

\* the text arrives: parse, plan and transform run, and the first write, if
\* there is one to do, is requested
TaskRead(p) ==
    /\ tasks[p].pc = "reading"
    /\ \E timestamp \in TimeStamps :
         \E outcome \in
             {IF p \in DOMAIN files
              THEN processFileOutcome(p, tasks[p].options, config,
                                      [q \in {p} |-> readFile(files, p)], {}, timestamp)
              ELSE processFileOutcome(p, tasks[p].options, config, files, {}, timestamp)} :
             tasks' = [tasks EXCEPT
                          ![p].pc = IF Len(outcome.written) = 0 THEN "returned" ELSE "writing",
                          ![p].requests = outcome.written,
                          ![p].result = outcome.result]
    /\ UNCHANGED <<files, config, passes, writes, readOnly>>

\* the write requested is done or rejected; a rejection ends the call in
\* the catch block, and after the last write the call returns
TaskWrite(p) ==
    /\ tasks[p].pc = "writing"
    /\ \E request \in {Head(tasks[p].requests)} :
         IF request.path \in readOnly
         THEN /\ tasks' = [tasks EXCEPT
                              ![p].pc = "returned",
                              ![p].requests = <<>>,
                              ![p].result = ProcessingError(p,
                                                "Error: EACCES: permission denied")]
              /\ UNCHANGED <<files, writes>>
         ELSE /\ files' = writeAll(files, <<request>>, 1)
              /\ writes' = Append(writes, request)
              /\ tasks' = [tasks EXCEPT
                              ![p].pc = IF Len(tasks[p].requests) = 1
                                        THEN "returned" ELSE "writing",
                              ![p].requests = Tail(tasks[p].requests)]
    /\ UNCHANGED <<config, passes, readOnly>>

----------------------------------------------------------------------------
(* processFiles: the files of a list processed one after the other, the     *)
(* caller's onProgress called before each.                                  *)

BadPath == "src/Bad.tsx"
GonePath == "src/Gone.vue"
NotesPath == "notes.txt"

\* the files on the disk when processFiles is called: src/Gone.vue is not
\* among them
BatchFiles ==
    [p \in {VuePath, JsxPath, BadPath, HtmlPath, NotesPath} |->
        IF p = VuePath THEN VueSaves
        ELSE IF p = JsxPath THEN JsxUnprintable
        ELSE IF p = BadPath THEN JsxBroken
        ELSE SaveLine]

BatchPaths == DOMAIN BatchFiles \cup {GonePath}

MaxPaths == 2

\* what the caller's onProgress does: there is none, it returns, it throws
ProgressCallbacks == {"none", "returns", "throws"}

BatchInit ==
    /\ files = BatchFiles
    /\ config \in {WithAttributeName(DEFAULT_CONFIG, "data-testid"),
                   WithAttributeName([DEFAULT_CONFIG EXCEPT !.namingStrategy = CustomThrows],
                                     "data-testid")}
    /\ passes = <<>>
    /\ writes = <<>>
    /\ readOnly \in {{}, {VuePath}}
    /\ \E n \in 0..MaxPaths :
         \E filePaths \in [1..n -> BatchPaths] :
           \E options \in {[dryRun |-> FALSE, backup |-> TRUE],
                           [dryRun |-> TRUE, backup |-> FALSE]} :
             \E onProgress \in ProgressCallbacks :
               batch = [filePaths |-> filePaths, options |-> options,
                        onProgress |-> onProgress, i |-> 0, results |-> <<>>,
                        state |-> "running"]

\* one round of the loop: onProgress, if given, is called outside the try
\* block, so what it throws rejects the promise of processFiles; then
\* processFile is awaited and its result pushed
ProcessFilesRound ==
    /\ batch.state = "running"
    /\ batch.i < Len(batch.filePaths)
    /\ IF batch.onProgress = "throws"
       THEN /\ batch' = [batch EXCEPT !.state = "rejected"]
            /\ UNCHANGED <<files, passes, writes>>
       ELSE \E filePath \in {batch.filePaths[batch.i + 1]}, timestamp \in TimeStamps :
              \E outcome \in {processFileOutcome(filePath, batch.options, config, files,
                                                 readOnly, timestamp)} :
                /\ batch' = [batch EXCEPT !.i = @ + 1,
                                          !.results = Append(@, outcome.result)]
                /\ files' = writeAll(files, outcome.written, Len(outcome.written))
                /\ writes' = writes \o outcome.written
                /\ UNCHANGED passes
    /\ UNCHANGED <<config, readOnly>>

\* return results
ProcessFilesReturn ==
    /\ batch.state = "running"
    /\ batch.i = Len(batch.filePaths)
    /\ batch' = [batch EXCEPT !.state = "returned"]
    /\ UNCHANGED <<files, config, passes, writes, readOnly>>

----------------------------------------------------------------------------
(* The planning loop of processFile, statement by statement: the filter    *)
(* and the seed of existingIds, then for each element to process the call  *)
(* of generate and, once it has returned, the statements that count a      *)
(* conflict, add the id to existingIds and push the transformation.  The   *)
(* core plans one file after another with the configuration it was made    *)
(* with; `earlier` remembers the ids the earlier passes ended with.        *)

\* <form><button>Save</button><a href="/x">Back</a></form>, the button a node
\* without loc
JsxNoLoc ==
    [syntaxOk |-> TRUE, printable |-> TRUE, throwing |-> {},
     nodes |-> <<JsxNode("JSXElement", TRUE, "form", NoAttributes, "", 2, 4, 0),
                 [JsxNode("JSXElement", TRUE, "button", NoAttributes, "Save", 3, 6, 1)
                      EXCEPT !.loc = NoPosition],
                 JsxNode("JSXElement", TRUE, "a", [a \in {"href"} |-> "/x"], "Back", 4, 6, 1)>>]

\* the parse results the passes plan for
PlanInputs ==
    {VueParse(content).elements : content \in {VueLogin, VueSaves, VueProfiles}}
        \cup {ReactParse(content).elements : content \in {JsxFragment, JsxForm, JsxNoLoc}}

PlanConfigs ==
    {WithAttributeName(DEFAULT_CONFIG, "data-testid"),
     WithAttributeName([DEFAULT_CONFIG EXCEPT !.namingStrategy = Camel], "data-testid")}

\* if (element.position)
hasPosition(element) == element.position # NoPosition

\* existingIds.add(generatedId) left out
addGeneratedIdNever(existingIds, generatedId) == existingIds

\* existingIds.add(generatedId)
addGeneratedId(existingIds, generatedId) == existingIds \cup {generatedId}

\* the locals of processFile once the filter and the seed have run
BeginPlan(elements, effectiveConfig, pass, earlier) ==
    [effectiveConfig |-> effectiveConfig,
     elements |-> elements,
     elementsToProcess |->
         SelectSeq(elements,
                   LAMBDA e : shouldAddTestId(e, effectiveConfig.includeElementTypes)),
     transformations |-> <<>>,
     existingIds |-> seedExistingIds(elements),
     conflictsResolved |-> 0,
     i |-> 0,
     pc |-> "forEach",
     context |-> NoContext,
     generatedId |-> "",
     pass |-> pass,
     earlier |-> earlier]

PlannerInit ==
    \E elements \in PlanInputs, effectiveConfig \in PlanConfigs :
        planner = BeginPlan(elements, effectiveConfig, 1, {})

\* the element of the round the loop is in
CurrentElement == planner.elementsToProcess[planner.i + 1]

\* a round for an element with a position, up to the return of generate
PlanGenerate ==
    /\ planner.pc = "forEach"
    /\ planner.i < Len(planner.elementsToProcess)
    /\ hasPosition(CurrentElement)
    /\ \E timestamp \in TimeStamps :
         \E context \in {[component |-> "",
                          existingIds |-> planner.existingIds,
                          namingStrategy |-> planner.effectiveConfig.namingStrategy,
                          prefix |-> planner.effectiveConfig.prefix]} :
             planner' = [planner EXCEPT
                            !.pc = "generated",
                            !.context = context,
                            !.generatedId = generate(CurrentElement, context, timestamp)]

\* the rest of the round: conflictsResolved, existingIds.add, transformations.push
PlanEmit ==
    /\ planner.pc = "generated"
    /\ planner' = [planner EXCEPT
           !.pc = "forEach",
           !.i = @ + 1,
           !.conflictsResolved =
               @ + (IF hasNumericSuffix(planner.generatedId) THEN 1 ELSE 0),
           !.existingIds = addGeneratedId(@, planner.generatedId),
           !.transformations =
               Append(@, [type |-> "add-attribute",
                          element |-> CurrentElement,
                          attribute |-> "data-testid",
                          value |-> planner.generatedId,
                          position |-> CurrentElement.position])]

\* a round for an element without position
PlanSkip ==
    /\ planner.pc = "forEach"
    /\ planner.i < Len(planner.elementsToProcess)
    /\ ~hasPosition(CurrentElement)
    /\ planner' = [planner EXCEPT !.i = @ + 1]

\* forEach returns; existingIds is a local of the call and dies with it
PlanReturn ==
    /\ planner.pc = "forEach"
    /\ planner.i = Len(planner.elementsToProcess)
    /\ planner' = [planner EXCEPT !.pc = "returned"]

\* processFile called again, on this file or another
PlanAgain ==
    /\ planner.pc = "returned"
    /\ planner.pass < MaxPasses
    /\ \E elements \in PlanInputs :
         planner' = BeginPlan(elements, planner.effectiveConfig, planner.pass + 1,
                              planner.earlier \cup planner.existingIds)

----------------------------------------------------------------------------
(* resolveConflicts, statement by statement: the test of the first line,   *)
(* the rounds of the while loop, the fallback and the return.              *)

ResolveBases ==
    {"test-btn",
     "test-email-input-field-wrappers",                \* 31 characters
     "test-login-form-submit-cancel-primary-btn"}      \* 41 characters

\* the id and the first n candidates of the loop
Taken(id, n) == {id} \cup {resolveCandidate(id, k) : k \in 1..n}

\* existingIds without the id, with it, with it and the candidates of the
\* first rounds, of all rounds but the last, of all rounds
ResolveSets(id) ==
    {{}, {id \o "-1"}, (Taken(id, 3) \ {id \o "-2"})}
        \cup {Taken(id, n) : n \in {0, 3, NUMBERED_ATTEMPTS + 2,
                                   MAX_ATTEMPTS - 1, MAX_ATTEMPTS}}

ResolvingInit ==
    \E id \in ResolveBases :
        \E existingIds \in ResolveSets(id) :
            resolving = [id |-> id, existingIds |-> existingIds,
                         attempts |-> 0, resolvedId |-> "", pc |-> "called"]

\* the loop going on while the candidate is taken, without its limit
loopContinuesUnbounded(existingIds, resolvedId, attempts) ==
    resolvedId \in existingIds

\* existingIds.has(resolvedId) && attempts < 100
loopContinues(existingIds, resolvedId, attempts) ==
    resolvedId \in existingIds /\ attempts < MAX_ATTEMPTS

\* if (!existingIds.has(id)) return id; let attempts = 0; let resolvedId = id
ResolveEnter ==
    /\ resolving.pc = "called"
    /\ resolving' = [resolving EXCEPT
           !.resolvedId = resolving.id,
           !.pc = IF resolving.id \notin resolving.existingIds
                  THEN "returned" ELSE "while"]

\* one round of the while loop
ResolveRound ==
    /\ resolving.pc = "while"
    /\ loopContinues(resolving.existingIds, resolving.resolvedId, resolving.attempts)
    /\ resolving' = [resolving EXCEPT
           !.attempts = @ + 1,
           !.resolvedId = resolveCandidate(resolving.id, resolving.attempts + 1)]

\* the loop left: the fallback where the last candidate is taken, the return
ResolveReturn ==
    /\ resolving.pc = "while"
    /\ ~loopContinues(resolving.existingIds, resolving.resolvedId, resolving.attempts)
    /\ \E timestamp \in TimeStamps :
         resolving' = [resolving EXCEPT
             !.resolvedId = IF resolving.resolvedId \in resolving.existingIds
                            THEN resolving.id \o "-" \o timestamp
                            ELSE @,
             !.pc = "returned"]

----------------------------------------------------------------------------
(* sanitizeTestId called on a string, with a maximum length or without     *)
(* one (0 stands for the absent argument, which the code tests the same    *)
(* way).                                                                   *)

MaxIdChars == 4

\* a lower-case and an upper-case letter, a digit, the two separators and a
\* character that is not allowed in an id
SanitizeAlphabet == {"a", "B", "7", "-", "_", "."}

RECURSIVE WordsUpTo(_)
\* the strings of at most n characters of the alphabet
WordsUpTo(n) ==
    IF n = 0 THEN {""}
    ELSE The({ shorter \cup {word \o c : word \in shorter, c \in SanitizeAlphabet}
               : shorter \in {WordsUpTo(n - 1)} })

SanitizeLengths == {0, 2, 3}

SanitizingInit ==
    \E id \in WordsUpTo(MaxIdChars), maxLength \in SanitizeLengths :
        sanitizing = [id |-> id, maxLength |-> maxLength, pc |-> "called", result |-> ""]

SanitizeCall ==
    /\ sanitizing.pc = "called"
    /\ sanitizing' = [sanitizing EXCEPT
           !.pc = "returned",
           !.result = sanitizeTestId(sanitizing.id, sanitizing.maxLength)]

----------------------------------------------------------------------------
(* parseSFC called on the text of a single-file component made of blocks   *)

MaxBlocks == 3

TemplateBlock == "<template>\n<div>a</div>\n</template>"
NestedTemplateBlock ==
    "<template>\n<div>\n<template v-if=\"ok\">\n<span>Hi</span>\n</template>\n</div>\n</template>"
StyleBlock == "<style>\n.a {}\n</style>"
ScopedStyleBlock == "<style scoped>\n.b {}\n.c {}\n</style>"
ScriptBlock == "<script>\nexport default {}\n</script>"
SetupScriptBlock == "<script setup>\nconst a = 1\n</script>"

SFCBlocks ==
    {TemplateBlock, NestedTemplateBlock, StyleBlock, ScopedStyleBlock,
     ScriptBlock, SetupScriptBlock}

\* the texts made of at most MaxBlocks blocks, one below the other
SFCTexts ==
    {join(blocks, "\n") : blocks \in UNION {[1..n -> SFCBlocks] : n \in 0..MaxBlocks}}

SplittingInit ==
    \E content \in SFCTexts :
        splitting = [content |-> content, pc |-> "called", sections |-> NoSections]

ParseSFCCall ==
    /\ splitting.pc = "called"
    /\ splitting' = [splitting EXCEPT
           !.pc = "returned",
           !.sections = parseSFC(splitting.content)]

----------------------------------------------------------------------------
(* VueParser.transform called with transformations the planner emits for   *)
(* templates that hold several elements on one line: as emitted, or        *)
(* anchored one line higher.                                               *)

\* two buttons on one line
VueSiblings == "<template>\n<button>Yes</button><button>No</button>\n</template>"
\* two buttons on one line, a third on the line below
VueSiblingsAbove ==
    "<template>\n<button>Yes</button><button>No</button>\n<button>Maybe</button>\n</template>"
\* a button and a link on one line
VueNeighbours == "<template>\n<button>Yes</button><a href=\"/x\">No</a>\n</template>"

SiblingSources == {VueSiblings, VueSiblingsAbove, VueNeighbours}

\* the transformations processFile plans for a text
PlannedFor(content) ==
    plan(VueParse(content).elements, DEFAULT_CONFIG, "lx3k9a2f").transformations

\* the planned transformations, and the same one line higher
SiblingCandidates(content) ==
    The({ {[planned[k] EXCEPT !.position.line = @ - d] : k \in 1..Len(planned), d \in {0, 1}}
          : planned \in {PlannedFor(content)} })

SiblingsInit ==
    /\ tParser = "vue"
    /\ tResult = <<>>
    /\ \E content \in SiblingSources :
         /\ tContent = content
         /\ tTransformations \in ListsOf(SiblingCandidates(content))

----------------------------------------------------------------------------
(* Specifications                                                          *)

InitLadder ==
    /\ LadderInit /\ GenIdle /\ TransformIdle /\ FilesIdle /\ TasksIdle /\ BatchIdle
    /\ CallsIdle
LadderNext ==
    /\ LadderRequest
    /\ UNCHANGED <<genVars, transformVars, fileVars, taskVars, batchVars, callVars>>
SpecLadder == InitLadder /\ [][LadderNext]_vars

InitGenerate ==
    /\ GenInit /\ LadderIdle /\ TransformIdle /\ FilesIdle /\ TasksIdle /\ BatchIdle
    /\ CallsIdle
GenerateNext ==
    /\ \E line \in SampleLines : GenerateCall(line)
    /\ UNCHANGED <<ladderVars, transformVars, fileVars, taskVars, batchVars, callVars>>
SpecGenerate == InitGenerate /\ [][GenerateNext]_vars

InitTransform ==
    /\ TransformInit /\ LadderIdle /\ GenIdle /\ FilesIdle /\ TasksIdle /\ BatchIdle
    /\ CallsIdle
TransformNext ==
    /\ VueTransformCall \/ ReactTransformCall
    /\ UNCHANGED <<ladderVars, genVars, fileVars, taskVars, batchVars, callVars>>
SpecTransform == InitTransform /\ [][TransformNext]_vars

Init ==
    /\ FilesInit /\ LadderIdle /\ GenIdle /\ TransformIdle /\ TasksIdle /\ BatchIdle
    /\ CallsIdle
Next ==
    /\ \E filePath \in DOMAIN files, options \in Options : ProcessFile(filePath, options)
    /\ UNCHANGED <<ladderVars, genVars, transformVars, taskVars, batchVars, callVars>>
Spec == Init /\ [][Next]_vars

InitTasks ==
    /\ TasksInit /\ LadderIdle /\ GenIdle /\ TransformIdle /\ BatchIdle
    /\ CallsIdle
TasksNext ==
    /\ \E p \in DOMAIN tasks : TaskStart(p) \/ TaskRead(p) \/ TaskWrite(p)
    /\ UNCHANGED <<ladderVars, genVars, transformVars, batchVars, callVars>>
SpecTasks == InitTasks /\ [][TasksNext]_vars

InitBatch ==
    /\ BatchInit /\ LadderIdle /\ GenIdle /\ TransformIdle /\ TasksIdle
    /\ CallsIdle
BatchNext ==
    /\ ProcessFilesRound \/ ProcessFilesReturn
    /\ UNCHANGED <<ladderVars, genVars, transformVars, taskVars, callVars>>
SpecBatch == InitBatch /\ [][BatchNext]_vars

InitPlanner ==
    /\ PlannerInit /\ LadderIdle /\ GenIdle /\ TransformIdle /\ FilesIdle /\ TasksIdle
    /\ BatchIdle /\ ResolvingIdle /\ SanitizingIdle /\ SplittingIdle
PlannerNext ==
    /\ PlanGenerate \/ PlanEmit \/ PlanSkip \/ PlanReturn \/ PlanAgain
    /\ UNCHANGED <<ladderVars, genVars, transformVars, fileVars, taskVars, batchVars,
                   resolving, sanitizing, splitting>>
SpecPlanner == InitPlanner /\ [][PlannerNext]_vars

InitResolving ==
    /\ ResolvingInit /\ LadderIdle /\ GenIdle /\ TransformIdle /\ FilesIdle /\ TasksIdle
    /\ BatchIdle /\ PlannerIdle /\ SanitizingIdle /\ SplittingIdle
ResolvingNext ==
    /\ ResolveEnter \/ ResolveRound \/ ResolveReturn
    /\ UNCHANGED <<ladderVars, genVars, transformVars, fileVars, taskVars, batchVars,
                   planner, sanitizing, splitting>>
SpecResolving == InitResolving /\ [][ResolvingNext]_vars
\* the call runs on its own thread of control: it keeps taking its next step
SpecResolvingFair == SpecResolving /\ WF_vars(ResolvingNext)

InitSanitizing ==
    /\ SanitizingInit /\ LadderIdle /\ GenIdle /\ TransformIdle /\ FilesIdle /\ TasksIdle
    /\ BatchIdle /\ PlannerIdle /\ ResolvingIdle /\ SplittingIdle
SanitizingNext ==
    /\ SanitizeCall
    /\ UNCHANGED <<ladderVars, genVars, transformVars, fileVars, taskVars, batchVars,
                   planner, resolving, splitting>>
SpecSanitizing == InitSanitizing /\ [][SanitizingNext]_vars

InitSplitting ==
    /\ SplittingInit /\ LadderIdle /\ GenIdle /\ TransformIdle /\ FilesIdle /\ TasksIdle
    /\ BatchIdle /\ PlannerIdle /\ ResolvingIdle /\ SanitizingIdle
SplittingNext ==
    /\ ParseSFCCall
    /\ UNCHANGED <<ladderVars, genVars, transformVars, fileVars, taskVars, batchVars,
                   planner, resolving, sanitizing>>
SpecSplitting == InitSplitting /\ [][SplittingNext]_vars

InitSiblings ==
    /\ SiblingsInit /\ LadderIdle /\ GenIdle /\ FilesIdle /\ TasksIdle /\ BatchIdle
    /\ CallsIdle
SiblingsNext ==
    /\ VueTransformCall
    /\ UNCHANGED <<ladderVars, genVars, fileVars, taskVars, batchVars, callVars>>
SpecSiblings == InitSiblings /\ [][SiblingsNext]_vars

----------------------------------------------------------------------------
(* Properties of processFile                                               *)

\* the pass p wrote its rewritten text over the source file
Rewrote(p) ==
    /\ ~passes[p].options.dryRun
    /\ passes[p].result.success
    /\ Len(passes[p].result.transformations) > 0
    /\ Len(passes[p].result.errors) = 0

\* the data-testid values on the elements the pass p parsed
PresentIds(p) ==
    seedExistingIds(ParserParse(detectParser(passes[p].filePath), passes[p].before).elements)

\* C1: the values of the add-attribute transformations that one processFile
\* pass emits are pairwise distinct, and none of them equals a data-testid
\* value already present on a parsed element.
UniqueIdsPerPass ==
    \A p \in 1..Len(passes) :
        \A i \in 1..Len(passes[p].result.transformations) :
            /\ \A j \in 1..Len(passes[p].result.transformations) :
                   i # j => passes[p].result.transformations[i].value
                                # passes[p].result.transformations[j].value
            /\ passes[p].result.transformations[i].value \notin PresentIds(p)

\* C3: once a pass has rewritten a file, the next pass over the rewritten
\* file (preserve-existing being set) emits no transformation, on the React
\* path and on the Vue path.
RewriteIsIdempotent ==
    \A p \in 1..(Len(passes) - 1) :
        (/\ Rewrote(p)
         /\ passes[p + 1].filePath = passes[p].filePath
         /\ config.preserveExisting)
            => Len(passes[p + 1].result.transformations) = 0

\* C4: with maxIdLength = 20 in the configuration, every value of an emitted
\* transformation is at most 20 characters long.
MaxIdLengthRespected ==
    config.maxIdLength = 20 =>
        \A p \in 1..Len(passes) :
            \A i \in 1..Len(passes[p].result.transformations) :
                Len(passes[p].result.transformations[i].value) <= 20

----------------------------------------------------------------------------
(* Properties of the generator                                             *)

\* C2: generate returns a string that is not in context.existingIds at the
\* moment of the return.
GenerateReturnsFreshId ==
    \A k \in 1..Len(gCalls) : gCalls[k].id \notin gCalls[k].existingIds

\* what the ladder yields for the request number n, counted from 0
LadderExpected(base, n) ==
    IF n = 0 THEN base
    ELSE IF n > 10 /\ Len(base) > 30 THEN SubSeq(base, 1, 25) \o "-" \o numberToString(n)
    ELSE base \o "-" \o numberToString(n)

\* C5: the same base id requested again and again, each result being added
\* to existingIds, yields the base id, then base-1 .. base-10; from N = 11 on
\* a base id of more than 30 characters yields truncate(base, 25)-N, and a
\* shorter one keeps yielding base-N.
ConflictLadder ==
    /\ \A k \in 1..Len(lOut) : lOut[k] = LadderExpected(lBase, k - 1)
    /\ (lBase = "test-btn" /\ Len(lOut) >= 11) =>
           SubSeq(lOut, 1, 11) =
               <<"test-btn", "test-btn-1", "test-btn-2", "test-btn-3", "test-btn-4",
                 "test-btn-5", "test-btn-6", "test-btn-7", "test-btn-8", "test-btn-9",
                 "test-btn-10">>

ConflictLadderWitness ==
    /\ lBase = "test-login-form-submit-cancel-primary-btn"
    /\ Len(lOut) >= 12
    /\ lOut[11] = "test-login-form-submit-cancel-primary-btn-10"
    /\ lOut[12] = "test-login-form-submit-ca-11"

\* the call k is the one of the example: <button type="submit">Sign In</button>
\* with prefix "test", kebab-case, component "LoginForm", no existing id
IsSignInExample(k) ==
    /\ gCalls[k].line = SignInLine
    /\ gCalls[k].existingIds = {}
    /\ gCtx.prefix = "test"
    /\ gCtx.namingStrategy = Kebab
    /\ gCtx.component = "LoginForm"

NamingStrategyExample ==
    \A k \in 1..Len(gCalls) :
        (/\ gCalls[k].line = LoginFormLine
         /\ gCalls[k].existingIds = {}
         /\ gCtx.prefix = ""
         /\ gCtx.component = "")
            => /\ gCtx.namingStrategy = Kebab => gCalls[k].id = "login-form"
               /\ gCtx.namingStrategy = Camel => gCalls[k].id = "loginForm"
               /\ gCtx.namingStrategy = Snake => gCalls[k].id = "login_form"

----------------------------------------------------------------------------
(* Properties of transform                                                 *)

LinesOf(text) == split(text, "\n")

\* VueParser.transform has returned
VueReturned == tParser = "vue" /\ tResult # <<>>

\* the transformation is anchored at a line of the markup section: position
\* lines count from 1, the section's start and end lines from 0
AnchoredInSection(transformation, section) ==
    /\ transformation.position # NoPosition
    /\ transformation.position.line >= section.startLine + 1
    /\ transformation.position.line <= section.endLine + 1

\* two transformations, anchored at different lines of the markup section,
\* the first at the earlier line
EarlierAndLater(earlier, later) ==
    /\ AnchoredInSection(earlier, parseSFC(tContent)["template"])
    /\ AnchoredInSection(later, parseSFC(tContent)["template"])
    /\ earlier.position.line < later.position.line

\* the list of transformations without its member j
WithoutMember(list, j) == SubSeq(list, 1, j - 1) \o SubSeq(list, j + 1, Len(list))

\* the text transform returns for the list has as many lines as the text it
\* returns for the list without the later transformation j, and the same
\* lines down to the earlier line
LaterLeavesEarlierAlone(both, earlier, j) ==
    \E without \in {LinesOf(VueTransform(tContent, WithoutMember(tTransformations, j)).code)} :
        /\ Len(both) = Len(without)
        /\ \A l \in 1..earlier.position.line : both[l] = without[l]

\* C8: VueParser.transform applies the transformations in descending line
\* order, and of two transformations of one pass anchored at different lines
\* of the markup section, the insertion for the later line changes neither
\* the number of lines nor any character of the earlier line: with and
\* without the later transformation the text has the same number of lines
\* and the same earlier line.
SectionEditOrdering ==
    VueReturned =>
        /\ \A i, j \in 1..Len(tResult[1].rounds) :
               i < j => tResult[1].rounds[i].transformation.position.line
                            >= tResult[1].rounds[j].transformation.position.line
        /\ \A i, j \in 1..Len(tTransformations) :
               EarlierAndLater(tTransformations[i], tTransformations[j])
                   => LaterLeavesEarlierAlone(LinesOf(tResult[1].code),
                                              tTransformations[i], j)

SectionEditOrderingWitness ==
    /\ VueReturned
    /\ Len(tTransformations) = 2
    /\ EarlierAndLater(tTransformations[1], tTransformations[2])
    /\ Len(tResult[1].rounds) = 2
    /\ tResult[1].rounds[1].applied
    /\ tResult[1].rounds[2].applied
    /\ tResult[1].rounds[1].transformation = tTransformations[2]
    /\ tResult[1].errors = <<>>

\* C9: the text VueParser.transform returns has as many lines as its input,
\* and its lines outside the recorded start/end lines of the template
\* section are those of the input, whatever the list of transformations and
\* also when the template section has no content line.
SpliceFrame ==
    VueReturned =>
        \E orig \in {LinesOf(tContent)}, new \in {LinesOf(tResult[1].code)},
           section \in {parseSFC(tContent)["template"]} :
            /\ Len(new) = Len(orig)
            /\ \A l \in 1..Len(orig) :
                   (~section.present \/ l < section.startLine + 1 \/ l > section.endLine + 1)
                       => new[l] = orig[l]

\* parsing or printing the whole file fails inside transform
WholeFileFails ==
    \/ /\ tParser = "vue"
       /\ \/ ~parseSFC(tContent)["template"].present
          \/ /\ Len(tTransformations) >= 2
             /\ \E k \in 1..Len(tTransformations) : tTransformations[k].position = NoPosition
    \/ /\ tParser = "react"
       /\ \/ ~tContent.syntaxOk
          \/ ~tContent.printable
          \/ \E k \in 1..Len(tTransformations) : tTransformations[k].position = NoPosition

\* the result is the original content, no transformation and an error
OriginalWithError(result) ==
    /\ result.code = tContent
    /\ result.transformations = <<>>
    /\ \E k \in 1..Len(result.errors) : result.errors[k].severity = "error"

\* C10: when parsing or printing the whole file fails inside transform, of
\* either parser, the result holds the input content as its code, no
\* transformation and an error diagnostic; a result that drops the
\* transformations passed never carries a rewritten text.
WholeFileFailure ==
    tResult # <<>> =>
        /\ WholeFileFails => OriginalWithError(tResult[1])
        /\ (tTransformations # <<>> /\ tResult[1].transformations = <<>>)
               => OriginalWithError(tResult[1])

WholeFileFailureWitness ==
    /\ tResult # <<>>
    /\ tParser = "react"
    /\ tContent.syntaxOk
    /\ ~tContent.printable
    /\ \E k \in 1..Len(tTransformations) :
           tTransformations[k].position = tContent.nodes[1].loc
    /\ tResult[1].code = tContent

----------------------------------------------------------------------------
(* Properties of processFile: failures                                     *)

\* parser.parse meets a parse-level exception on the content: @babel/parser
\* rejects the text.  The text operations of the single-file-component
\* parser throw for no text.
ParseThrows(parser, content) == parser = "react" /\ ~content.syntaxOk

HasErrorSeverity(errors) == \E k \in 1..Len(errors) : errors[k].severity = "error"

\* C11: when a parse-level exception occurs, parse returns an empty element
\* list together with an error-severity diagnostic, and the processFile pass
\* emits no transformation and writes neither the source file nor a backup.
ParseFailureLeavesFileAlone ==
    \A p \in 1..Len(passes) :
        \A parser \in {detectParser(passes[p].filePath)} :
            (isSupported(passes[p].filePath) /\ ParseThrows(parser, passes[p].before)) =>
                \E parseResult \in {ParserParse(parser, passes[p].before)} :
                    /\ parseResult.elements = <<>>
                    /\ HasErrorSeverity(parseResult.errors)
                    /\ ~passes[p].result.success
                    /\ passes[p].result.transformations = <<>>
                    /\ passes[p].written = <<>>
                    /\ \A w \in 1..Len(writes) :
                           writes[w].path \notin {passes[p].filePath,
                                                  passes[p].filePath \o ".bak"}

ParseFailureLeavesFileAloneWitness ==
    \E p \in 1..Len(passes) :
        /\ isSupported(passes[p].filePath)
        /\ ParseThrows(detectParser(passes[p].filePath), passes[p].before)
        /\ ~passes[p].options.dryRun
        /\ passes[p].options.backup
        /\ HasErrorSeverity(passes[p].result.errors)
        /\ files[passes[p].filePath] = passes[p].before

----------------------------------------------------------------------------
(* Properties of transform: failures of single transformations             *)

\* transform can fail for the text as a whole: no template section, a text
\* that does not parse or print, a transformation without position
WholeTextFails ==
    \/ \E k \in 1..Len(tTransformations) : tTransformations[k].position = NoPosition
    \/ tParser = "vue" /\ ~parseSFC(tContent)["template"].present
    \/ tParser = "react" /\ (~tContent.syntaxOk \/ ~tContent.printable)

\* the transformation cannot be applied to the text: its type is not
\* supported, its line is out of range, or no opening tag of its element is
\* where it points.  For the single-file-component parser this is what
\* applying it alone reports; for the React parser no JSX element starts at
\* its position, or its type is not add-attribute.
CannotBeApplied(transformation) ==
    IF tParser = "vue"
    THEN Len(VueTransform(tContent, <<transformation>>).errors) > 0
    ELSE \/ transformation.type # "add-attribute"
         \/ \A k \in 1..Len(tContent.nodes) :
                \/ tContent.nodes[k].type # "JSXElement"
                \/ tContent.nodes[k].loc.line # transformation.position.line
                \/ tContent.nodes[k].loc.column # transformation.position.column

\* the transformations of the list that can be applied, in their order
Applicable == SelectSeq(tTransformations, LAMBDA tr : ~CannotBeApplied(tr))

\* C12: when transformations of a list cannot be applied (unsupported type,
\* line out of range, opening tag not found), each of them and no other is
\* reported by a diagnostic at its position, and the returned code is the
\* code transform returns for the other transformations of the list,
\* wherever in the list the failing ones stand.
FailureIsolation ==
    (tResult # <<>> /\ ~WholeTextFails) =>
        \E failing \in {{k \in 1..Len(tTransformations) :
                            CannotBeApplied(tTransformations[k])}} :
            /\ Len(tResult[1].errors) = Cardinality(failing)
            /\ \A k \in failing :
                   \E e \in 1..Len(tResult[1].errors) :
                       tResult[1].errors[e].position = tTransformations[k].position
            /\ tResult[1].code = ParserTransform(tParser, tContent, Applicable).code

\* the same for the single-file-component parser alone
FailureIsolationVue == tParser = "vue" => FailureIsolation

FailureIsolationVueWitness ==
    /\ tParser = "vue"
    /\ tResult # <<>>
    /\ ~WholeTextFails
    /\ Len(tTransformations) = 2
    /\ CannotBeApplied(tTransformations[1])
    /\ ~CannotBeApplied(tTransformations[2])
    /\ tResult[1].code # tContent

----------------------------------------------------------------------------
(* Properties of processFile: recoverable issues, eligibility, target      *)

\* the parse result carries diagnostics, none of them of error severity
OnlyRecoverableIssues(parseResult) ==
    /\ Len(parseResult.errors) > 0
    /\ \A k \in 1..Len(parseResult.errors) :
           parseResult.errors[k].severity \in {"warning", "info"}

\* the parsed elements that are eligible and have a position
EligibleElements(parseResult, effectiveConfig) ==
    SelectSeq(parseResult.elements,
              LAMBDA e : /\ shouldAddTestId(e, effectiveConfig.includeElementTypes)
                         /\ e.position # NoPosition)

\* C13: when the parse result carries only warning- or info-severity
\* diagnostics, the processFile pass still emits one transformation for each
\* eligible element that was parsed.
RecoverableIssuesDoNotStop ==
    \A p \in 1..Len(passes) :
        \A parser \in {detectParser(passes[p].filePath)} :
            (isSupported(passes[p].filePath) /\ parser # "") =>
                \E parseResult \in {ParserParse(parser, passes[p].before)} :
                    (/\ OnlyRecoverableIssues(parseResult)
                     /\ ~planThrows(parseResult.elements, config))
                        => \E eligible \in {EligibleElements(parseResult, config)} :
                               /\ Len(passes[p].result.transformations) = Len(eligible)
                               /\ \A k \in 1..Len(eligible) :
                                      passes[p].result.transformations[k].element
                                          = eligible[k]

\* the parse of the pass p went through and no id generation threw
Planned(p) ==
    /\ isSupported(passes[p].filePath)
    /\ detectParser(passes[p].filePath) # ""
    /\ \E parseResult \in {ParserParse(detectParser(passes[p].filePath), passes[p].before)} :
           /\ Len(parseResult.errors) = 0
           /\ ~planThrows(parseResult.elements, config)
    /\ passes[p].result.success

\* the eligibility of an element as the configuration asks for it
Selected(element, effectiveConfig) ==
    /\ ~(Attr(element, effectiveConfig.attributeName) # "" /\ effectiveConfig.preserveExisting)
    /\ toLowerCase(element.tag) \in effectiveConfig.includeElementTypes
    /\ toLowerCase(element.tag) \notin
           {"html", "head", "meta", "title", "style", "script", "link"}

\* C15: the elements a processFile pass emits transformations for are the
\* parsed elements but those that carry the target attribute while
\* preserve-existing is set, those whose tag is not in the include-list and
\* those with a non-visual structural tag; an element that carries the
\* target attribute is selected when preserve-existing is not set.
EligibilityFilter ==
    \A p \in 1..Len(passes) :
        Planned(p) =>
            \E selected \in
                {SelectSeq(ParserParse(detectParser(passes[p].filePath),
                                       passes[p].before).elements,
                           LAMBDA e : Selected(e, config) /\ e.position # NoPosition)} :
                /\ Len(passes[p].result.transformations) = Len(selected)
                /\ \A k \in 1..Len(selected) :
                       passes[p].result.transformations[k].element = selected[k]

\* the same under the configurations that set preserve-existing and keep
\* the attribute name data-testid
EligibilityFilterPreserving ==
    (config.preserveExisting /\ config.attributeName = "data-testid") => EligibilityFilter

EligibilityFilterPreservingWitness ==
    /\ config.preserveExisting
    /\ config.attributeName = "data-testid"
    /\ \E p \in 1..Len(passes) :
           /\ Planned(p)
           /\ Len(passes[p].result.transformations) > 0
           /\ Len(passes[p].result.transformations) < passes[p].result.metrics.elementsFound

\* C16: the attribute name of every emitted transformation is the target
\* attribute name of the configuration, no element that carries the target
\* attribute is given a transformation while preserve-existing is set, and
\* no emitted value is a value the target attribute has on a parsed element.
ConfiguredTargetAttribute ==
    \A p \in 1..Len(passes) :
        Planned(p) =>
            \E elements \in {ParserParse(detectParser(passes[p].filePath),
                                         passes[p].before).elements} :
                \A k \in 1..Len(passes[p].result.transformations) :
                    \E transformation \in {passes[p].result.transformations[k]} :
                        /\ transformation.attribute = config.attributeName
                        /\ config.preserveExisting
                               => Attr(transformation.element, config.attributeName) = ""
                        /\ \A e \in 1..Len(elements) :
                               Attr(elements[e], config.attributeName) # transformation.value

\* the attribute name of the emitted transformations alone
EmittedAttributeName ==
    \A p \in 1..Len(passes) :
        \A k \in 1..Len(passes[p].result.transformations) :
            passes[p].result.transformations[k].attribute = config.attributeName

----------------------------------------------------------------------------
(* Properties of processFile: what it writes, and when                     *)

\* C17: a processFile pass with dryRun set writes nothing, neither the
\* source file nor a backup, whatever the parse result and the number of
\* transformations it generates; while every pass so far was a dry run, the
\* files are what they were.
DryRunNeverWrites ==
    /\ \A p \in 1..Len(passes) : passes[p].options.dryRun => passes[p].written = <<>>
    /\ (\A p \in 1..Len(passes) : passes[p].options.dryRun) =>
           /\ writes = <<>>
           /\ \A p \in 1..Len(passes) :
                  /\ files[passes[p].filePath] = passes[p].before
                  /\ passes[p].filePath \o ".bak" \notin DOMAIN files

DryRunNeverWritesWitness ==
    \E p \in 1..Len(passes) :
        /\ passes[p].options.dryRun
        /\ passes[p].options.backup
        /\ passes[p].result.success
        /\ Len(passes[p].result.transformations) > 1
        /\ writes = <<>>

\* C18: in a processFile call with backup set and dryRun not set, the
\* source file is overwritten only after the backup file has been written
\* with the original content: every write of the source file in the log has
\* the write of its backup before it.
BackupPrecedesModification ==
    \A p \in DOMAIN tasks :
        tasks[p].options.backup =>
            \A i \in 1..Len(writes) :
                writes[i].path = p =>
                    /\ \E j \in 1..(i - 1) :
                           /\ writes[j].path = p \o ".bak"
                           /\ writes[j].content = TaskFiles[p]
                    /\ p \o ".bak" \in DOMAIN files
                    /\ files[p \o ".bak"] = TaskFiles[p]

BackupPrecedesModificationWitness ==
    \E p \in DOMAIN tasks :
        /\ tasks[p].options.backup
        /\ ~tasks[p].options.dryRun
        /\ tasks[p].pc = "returned"
        /\ tasks[p].result.success
        /\ files[p] # TaskFiles[p]
        /\ \E i \in 1..Len(writes) : writes[i].path = p

----------------------------------------------------------------------------
(* Properties of the entry points                                          *)

\* a result that reports a failure says why
CarriesDiagnostic(result) == ~result.success => Len(result.errors) > 0

\* C14: no exception escapes processFile and processFiles: the promise of
\* processFiles is never rejected, it returns one result for each path of
\* the list, and every result of a failure path (unsupported file type,
\* missing parser, read failure, parse failure, a throwing customTransform,
\* transform failure, write failure) carries a diagnostic.
NoExceptionEscapes ==
    /\ batch.state # "rejected"
    /\ \A k \in 1..Len(batch.results) : CarriesDiagnostic(batch.results[k])
    /\ batch.state = "returned" => Len(batch.results) = Len(batch.filePaths)

\* the same for the callers whose onProgress does not throw
NoExceptionEscapesProcessFile ==
    batch.onProgress # "throws" => NoExceptionEscapes

NoExceptionEscapesProcessFileWitness ==
    /\ batch.state = "returned"
    /\ Len(batch.results) = 2
    /\ ~batch.results[1].success
    /\ batch.results[2].success

----------------------------------------------------------------------------
(* Properties of transform: the anchor of a transformation                 *)

\* the one transformation passed is anchored at the position VueParser.parse
\* recorded for an element of the text
AnchoredAtParsedElement ==
    /\ tParser = "vue"
    /\ Len(tTransformations) = 1
    /\ \E elements \in {VueParse(tContent).elements} :
           \E k \in 1..Len(elements) :
               tTransformations[1] = Anchored(elements[k], elements[k].position)

\* C20: the transformation anchored at the position VueParser.parse recorded
\* for an element at file line L is applied by VueParser.transform to the
\* opening tag on file line L: that line of the returned text is the line
\* with the attribute inserted before the closing '>' of the tag, and no
\* other line is changed.
AnchorRoundTrip ==
    (tResult # <<>> /\ AnchoredAtParsedElement) =>
        \E orig \in {LinesOf(tContent)}, new \in {LinesOf(tResult[1].code)},
           L \in {tTransformations[1].position.line} :
            /\ Len(new) = Len(orig)
            /\ new[L] = applyTransformationToTemplate(orig[L], tTransformations[1], 0).value
            /\ \A l \in 1..Len(orig) : l # L => new[l] = orig[l]

----------------------------------------------------------------------------
(* Properties of the planning loop                                         *)

\* the elements of the parse result that get a transformation: those the
\* eligibility filter accepts and that have a position, in parse order
ToBePlanned(p) ==
    SelectSeq(p.elements,
              LAMBDA e : /\ shouldAddTestId(e, p.effectiveConfig.includeElementTypes)
                         /\ e.position # NoPosition)

\* the elements of the transformations emitted so far, in order of emission
EmittedFor(p) == [k \in 1..Len(p.transformations) |-> p.transformations[k].element]

\* C21: the planner emits exactly one add-attribute transformation for each
\* parsed element that passes the eligibility filter and has a position, and
\* none for any other element; the transformations come in the order of
\* their elements in the parse result, each anchored at its element's
\* position; and every identifier generated so far is in existingIds when
\* generate is called for the next element.
PlannerEmitsInParseOrder ==
    /\ Len(planner.transformations) <= Len(ToBePlanned(planner))
    /\ EmittedFor(planner) =
           SubSeq(ToBePlanned(planner), 1, Len(planner.transformations))
    /\ planner.pc = "returned" => EmittedFor(planner) = ToBePlanned(planner)
    /\ \A k \in 1..Len(planner.transformations) :
           /\ planner.transformations[k].type = "add-attribute"
           /\ planner.transformations[k].position =
                  planner.transformations[k].element.position
           /\ planner.transformations[k].value \in planner.existingIds
           /\ planner.pc = "generated" =>
                  planner.transformations[k].value \in planner.context.existingIds

\* the three Save buttons, the third with the id test-save-btn: the first two
\* get a transformation each, in order, the second id generated with the first
\* in existingIds
PlannerEmitsInParseOrderWitness ==
    /\ planner.pc = "returned"
    /\ planner.elements = VueParse(VueSaves).elements
    /\ Len(planner.elements) = 3
    /\ Len(planner.transformations) = 2
    /\ planner.transformations[1].value = "test-save-btn-1"
    /\ planner.transformations[2].value = "test-save-btn-2"
    /\ planner.transformations[1].position.line < planner.transformations[2].position.line

\* the values of the target attribute on the parsed elements
TargetAttributeValues(p) ==
    {Attr(p.elements[k], p.effectiveConfig.attributeName) : k \in 1..Len(p.elements)}
        \ {""}

\* a pass starts with existingIds holding the target-attribute values of the
\* parsed elements and nothing else, whatever the earlier passes ended with
StartsFromParsedValues ==
    (planner.i = 0 /\ planner.pc = "forEach") =>
        planner.existingIds = TargetAttributeValues(planner)

\* a step inside one pass: existingIds loses nothing and changes only where
\* the planner pushes a transformation, never while generate runs
GrowsOnlyWithEmission ==
    planner'.pass = planner.pass =>
        /\ planner.existingIds \subseteq planner'.existingIds
        /\ Len(planner'.transformations) = Len(planner.transformations) =>
               planner'.existingIds = planner.existingIds
        /\ Len(planner'.transformations) = Len(planner.transformations) + 1 =>
               planner'.existingIds =
                   planner.existingIds
                       \cup {planner'.transformations[Len(planner'.transformations)].value}

\* each pushed transformation brings existingIds exactly one new member
OneNewMemberPerEmission ==
    (/\ planner'.pass = planner.pass
     /\ Len(planner'.transformations) = Len(planner.transformations) + 1) =>
        Cardinality(planner'.existingIds) = Cardinality(planner.existingIds) + 1

\* C22: within one file's pass existingIds starts as exactly the set of the
\* target-attribute values on the parsed elements, never loses a member and
\* gains exactly one member per emitted transformation, added by the planner
\* and not by generate or resolveConflicts; a new pass starts from a fresh
\* set that holds nothing of an earlier pass.
ExistingIdsLifecycle ==
    /\ []StartsFromParsedValues
    /\ [][GrowsOnlyWithEmission /\ OneNewMemberPerEmission]_vars

\* the part of C22 the code keeps: seed, growth by the planner alone, fresh
\* set per pass
ExistingIdsGrowOnly ==
    /\ []StartsFromParsedValues
    /\ [][GrowsOnlyWithEmission]_vars

\* a pass that has emitted more transformations than existingIds has gained
\* members
EmissionWithoutNewMember ==
    /\ planner.pc = "returned"
    /\ Len(planner.transformations) >
           Cardinality(planner.existingIds \ TargetAttributeValues(planner))

----------------------------------------------------------------------------
(* Properties of resolveConflicts                                          *)

\* every numbered candidate of the base id is taken
AllNumberedTaken(id, existingIds) ==
    /\ id \in existingIds
    /\ \A n \in 1..100 : LadderExpected(id, n) \in existingIds

\* what a finished call of resolveConflicts has returned
ResolvedAsStated ==
    resolving.pc = "returned" =>
        /\ resolving.id \notin resolving.existingIds =>
               resolving.resolvedId = resolving.id /\ resolving.attempts = 0
        /\ AllNumberedTaken(resolving.id, resolving.existingIds) =>
               resolving.resolvedId \in
                   {resolving.id \o "-" \o timestamp : timestamp \in TimeStamps}

\* C23: for every base id and every finite existingIds, resolveConflicts
\* finishes after at most 100 candidate attempts; where all 100 numbered
\* candidates are taken it returns the untruncated base id with the base-36
\* timestamp appended, and where the base id is free it returns the base id
\* without any attempt.
ConflictResolutionTerminates ==
    /\ [](resolving.attempts <= 100)
    /\ []ResolvedAsStated
    /\ <>(resolving.pc = "returned")

\* the fallback taken for an id of 41 characters after 100 attempts
ConflictResolutionTerminatesWitness ==
    /\ resolving.pc = "returned"
    /\ resolving.attempts = 100
    /\ resolving.id = "test-login-form-submit-cancel-primary-btn"
    /\ resolving.resolvedId = "test-login-form-submit-cancel-primary-btn-lx3k9a2f"

----------------------------------------------------------------------------
(* Properties of sanitizeTestId                                            *)

SeparatorChars == {"-", "_"}

\* the postcondition of sanitation on a returned id, for a set of separators
WellFormedId(id, separators) ==
    /\ id # ""
    /\ \A i \in 1..Len(id) : Ch(id, i) \in LowerSet \cup DigitSet \cup {"_", "-"}
    /\ \A i \in 1..(Len(id) - 1) :
           ~(Ch(id, i) \in separators /\ Ch(id, i + 1) \in separators)
    /\ Ch(id, 1) \notin separators
    /\ Ch(id, Len(id)) \notin separators

\* an input without any letter, digit or underscore: nothing of it can stay
SanitizesToNothing(id) ==
    \A i \in 1..Len(id) :
        Ch(id, i) \notin LowerSet \cup UpperSet \cup DigitSet \cup {"_"}

\* C24: for every input string and maximum length the sanitized identifier
\* is not empty, holds only characters of [a-z0-9_-], holds no run of two or
\* more separator characters, neither begins nor ends with a separator (also
\* after truncation), and an input that sanitizes to nothing yields "element".
SanitationPostcondition ==
    sanitizing.pc = "returned" =>
        /\ WellFormedId(sanitizing.result, SeparatorChars)
        /\ SanitizesToNothing(sanitizing.id) => sanitizing.result = "element"

\* what the code keeps of C24: for an input that is not the empty string the
\* postcondition holds with the hyphen as the only separator
SanitationPostconditionHyphen ==
    (sanitizing.pc = "returned" /\ sanitizing.id # "") =>
        /\ WellFormedId(sanitizing.result, {"-"})
        /\ SanitizesToNothing(sanitizing.id) => sanitizing.result = "element"
        /\ sanitizing.maxLength # 0 =>
               Len(sanitizing.result) <= sanitizing.maxLength
                   \/ sanitizing.result = "element"

\* a truncation that cuts at a hyphen, and an input of which nothing stays
SanitationPostconditionHyphenWitness ==
    \/ /\ sanitizing.pc = "returned"
       /\ sanitizing.id = "a.-a"
       /\ sanitizing.maxLength = 2
       /\ sanitizing.result = "a"
    \/ /\ sanitizing.pc = "returned"
       /\ sanitizing.id = ".-."
       /\ sanitizing.result = "element"

\* C28: a sanitized identifier never begins with a digit, also for inputs
\* made of digit runs separated by separators.
NeverBeginsWithDigit ==
    (sanitizing.pc = "returned" /\ sanitizing.result # "") =>
        Ch(sanitizing.result, 1) \notin DigitSet

----------------------------------------------------------------------------
(* Properties of parseSFC                                                  *)

\* the indexes, counted from 0, of the lines that open the section `name`
OpeningLines(lines, name) ==
    {i \in 0..(Len(lines) - 1) : startsWith(trim(LineAt(lines, i)), "<" \o name)}

\* the indexes of the lines that close the section `name` below the line i
ClosingLinesBelow(lines, name, i) ==
    {j \in (i + 1)..(Len(lines) - 1) :
        startsWith(trim(LineAt(lines, j)), "</" \o name \o ">")}

\* the section the open/close pair that begins on the line i delimits
PairFrom(lines, name, i) ==
    The({ [present |-> TRUE,
           content |-> join(SubSeq(lines, i + 2, close), "\n"),
           startLine |-> i + 1,
           endLine |-> close - 1]
          : close \in {MinOf(ClosingLinesBelow(lines, name, i))} })

\* the section recorded under `name` is the one of the first pair / of the
\* pair of the last opening line
RecordedIsFirstPair(lines, name) ==
    splitting.sections[name] = PairFrom(lines, name, MinOf(OpeningLines(lines, name)))

RecordedIsLastPair(lines, name) ==
    splitting.sections[name] = PairFrom(lines, name, MaxOf(OpeningLines(lines, name)))

\* C25: where a file has more than one opening line for one section name (a
\* nested <template ...> line inside the template, a second <style> or
\* <script> block), the section recorded under that name is the one the
\* first open/close pair delimits, with its start and end lines; later pairs
\* do not replace it.
FirstPairWins ==
    splitting.pc = "returned" =>
        \A lines \in {split(splitting.content, "\n")} :
            \A name \in {"template", "script", "style"} :
                Cardinality(OpeningLines(lines, name)) > 1 =>
                    RecordedIsFirstPair(lines, name)

\* what parseSFC does: a section name with one opening line gets its pair,
\* one with several gets the pair of the last opening line
LastPairWins ==
    splitting.pc = "returned" =>
        \A lines \in {split(splitting.content, "\n")} :
            \A name \in {"template", "script", "style"} :
                /\ Cardinality(OpeningLines(lines, name)) = 1 =>
                       RecordedIsFirstPair(lines, name)
                /\ Cardinality(OpeningLines(lines, name)) > 1 =>
                       RecordedIsLastPair(lines, name)

\* two style blocks below a template: the second one is the one recorded
LastPairWinsWitness ==
    /\ splitting.pc = "returned"
    /\ splitting.content = join(<<TemplateBlock, StyleBlock, ScopedStyleBlock>>, "\n")
    /\ splitting.sections["style"].content = ".b {}\n.c {}"
    /\ splitting.sections["style"].startLine = 7
    /\ splitting.sections["template"].startLine = 1

----------------------------------------------------------------------------
(* Properties of ReactParser.transform                                     *)

\* the JSX elements of the returned tree that begin at the position
NodesAt(code, position) ==
    {k \in 1..Len(code.nodes) :
        /\ code.nodes[k].type = "JSXElement"
        /\ code.nodes[k].loc.line = position.line
        /\ code.nodes[k].loc.column = position.column}

\* the value the last transformation of the list for this position and
\* attribute name carries
LastValueFor(transformation) ==
    The({ tTransformations[last].value
          : last \in {MaxOf({k \in 1..Len(tTransformations) :
                            /\ tTransformations[k].position = transformation.position
                            /\ tTransformations[k].attribute = transformation.attribute})} })

\* the transformation is applied in the returned code: an element begins at
\* its position and carries its attribute, with the value the list ends on
AppliedInTree(result, transformation) ==
    /\ transformation.type = "add-attribute"
    /\ result.errors = <<>> \/ result.code # tContent
    /\ NodesAt(result.code, transformation.position) # {}
    /\ \A k \in NodesAt(result.code, transformation.position) :
           Attr(result.code.nodes[k], transformation.attribute)
               = LastValueFor(transformation)

\* a diagnostic of the result is about the transformation: one at its
\* position, or one about the whole call
ReportedInResult(result, transformation) ==
    \E e \in 1..Len(result.errors) :
        \/ result.errors[e].position = NoPosition
        \/ result.errors[e].position = transformation.position

\* C26: every transformation passed to ReactParser.transform is applied to
\* the opening-tag node whose line:column is its position (the value of a
\* same-named attribute overwritten, a new attribute appended otherwise) or
\* is reported by a diagnostic; none whose position matches no node is
\* dropped in silence.
RewriterAccounting ==
    (tParser = "react" /\ tResult # <<>>) =>
        \A k \in 1..Len(tTransformations) :
            \/ AppliedInTree(tResult[1], tTransformations[k])
            \/ ReportedInResult(tResult[1], tTransformations[k])

\* what the code keeps of C26: a transformation whose position is that of an
\* opening-tag node is applied or reported
RewriterAccountingMatched ==
    (tParser = "react" /\ tResult # <<>>) =>
        \A k \in 1..Len(tTransformations) :
            (/\ tTransformations[k].position # NoPosition
             /\ NodesAt(tContent, tTransformations[k].position) # {}) =>
                \/ AppliedInTree(tResult[1], tTransformations[k])
                \/ ReportedInResult(tResult[1], tTransformations[k])

\* two transformations for one button: the attribute is appended by the
\* first and written again by the second, the button ends with one
RewriterAccountingMatchedWitness ==
    /\ tParser = "react"
    /\ tResult # <<>>
    /\ tResult[1].errors = <<>>
    /\ Len(tTransformations) = 2
    /\ tTransformations[1].position = tTransformations[2].position
    /\ AppliedInTree(tResult[1], tTransformations[1])
    /\ AppliedInTree(tResult[1], tTransformations[2])

----------------------------------------------------------------------------
(* Properties of ReactParser.parse                                         *)

\* no two members of a list of elements or of transformations have the same
\* position
DistinctPositions(list) ==
    \A i, j \in 1..Len(list) : i # j => list[i].position # list[j].position

\* the pass p parsed a React source
ReactPass(p) == detectParser(p.filePath) = "react"

HoldsFragment(content) ==
    \E k \in 1..Len(content.nodes) : content.nodes[k].type = "JSXFragment"

\* C27: in the element list ReactParser.parse returns, a markup node that is
\* a descendant of a fragment appears exactly once: no two elements of the
\* list share an opening-tag position, and no two transformations planned
\* for one file share an anchor position.
EachNodeCollectedOnce ==
    \A k \in 1..Len(passes) :
        ReactPass(passes[k]) =>
            /\ DistinctPositions(ReactParse(passes[k].before).elements)
            /\ DistinctPositions(passes[k].result.transformations)

\* what the code keeps of C27: the nodes of a source without fragment are
\* collected once
EachNodeCollectedOnceWithoutFragment ==
    \A k \in 1..Len(passes) :
        (ReactPass(passes[k]) /\ ~HoldsFragment(passes[k].before)) =>
            /\ DistinctPositions(ReactParse(passes[k].before).elements)
            /\ DistinctPositions(passes[k].result.transformations)

EachNodeCollectedOnceWithoutFragmentWitness ==
    \E k \in 1..Len(passes) :
        /\ ReactPass(passes[k])
        /\ passes[k].before = JsxForm
        /\ Len(passes[k].result.transformations) = 2

----------------------------------------------------------------------------
(* Properties of what processFile reports                                  *)

\* the pass reports success with transformations, and was no dry run
ReportsRewrite(p) ==
    /\ ~p.options.dryRun
    /\ p.result.success
    /\ Len(p.result.transformations) > 0

\* the texts the pass wrote to its source file
SourceWrites(p) ==
    {p.written[w].content : w \in {v \in 1..Len(p.written) : p.written[v].path = p.filePath}}

\* the transformation is applied in the text: the element at its position
\* carries its attribute with its value
AppliedInText(filePath, text, transformation) ==
    \E elements \in {ParserParse(detectParser(filePath), text).elements} :
        \E e \in 1..Len(elements) :
            /\ elements[e].position = transformation.position
            /\ Attr(elements[e], transformation.attribute) = transformation.value

\* the pass wrote its source file, with every listed transformation applied
WroteWhatItReports(p) ==
    /\ SourceWrites(p) # {}
    /\ \A text \in SourceWrites(p) :
           \A t \in 1..Len(p.result.transformations) :
               AppliedInText(p.filePath, text, p.result.transformations[t])

\* C29: whenever a processFile call that is no dry run returns success with
\* a non-empty list of transformations, the source file has been overwritten
\* with a text in which every listed transformation is applied; where the
\* rewrite produced a diagnostic and the file was not written, the result
\* does not report the transformations as a success.
ReportMatchesWritten ==
    \A k \in 1..Len(passes) :
        /\ ReportsRewrite(passes[k]) => WroteWhatItReports(passes[k])
        /\ (/\ ~passes[k].options.dryRun
            /\ Len(passes[k].result.errors) > 0
            /\ SourceWrites(passes[k]) = {}) =>
               ~(passes[k].result.success /\ Len(passes[k].result.transformations) > 0)

\* what the code keeps of C29: a pass over a React source without fragment
\* that reports a rewrite without diagnostic wrote the file with every
\* listed transformation applied
ReportMatchesWrittenReact ==
    \A k \in 1..Len(passes) :
        (/\ ReactPass(passes[k])
         /\ ReportsRewrite(passes[k])
         /\ Len(passes[k].result.errors) = 0
         /\ ~HoldsFragment(passes[k].before)) =>
            WroteWhatItReports(passes[k])

ReportMatchesWrittenReactWitness ==
    \E k \in 1..Len(passes) :
        /\ ReactPass(passes[k])
        /\ passes[k].before = JsxForm
        /\ ReportsRewrite(passes[k])
        /\ WroteWhatItReports(passes[k])

\* a pass that reports success and transformations next to diagnostics of
\* the rewrite, the file not written
SuccessWithoutWrite ==
    \E k \in 1..Len(passes) :
        /\ ReportsRewrite(passes[k])
        /\ Len(passes[k].result.errors) > 0
        /\ passes[k].written = <<>>
        /\ readOnly = {}

----------------------------------------------------------------------------
(* Properties of the rewrite of elements that share a line                 *)

\* the elements of a parsed list on the line of `element`, up to it
OnLineUpTo(elements, element) ==
    {k \in 1..Len(elements) :
        /\ elements[k].position.line = element.position.line
        /\ elements[k].position.column <= element.position.column}

\* the element of the rewritten text that `element` has become: the one on
\* the same line with as many elements before it on the line
Counterpart(rewritten, parsed, element) ==
    {k \in 1..Len(rewritten) :
        /\ rewritten[k].position.line = element.position.line
        /\ Cardinality({j \in 1..Len(rewritten) :
                           /\ rewritten[j].position.line = element.position.line
                           /\ rewritten[j].position.column <= rewritten[k].position.column})
               = Cardinality(OnLineUpTo(parsed, element))}

CarryingTestId(elements) ==
    Cardinality({k \in 1..Len(elements) : Attr(elements[k], "data-testid") # ""})

\* the list holds transformations for two elements of one tag name on one
\* line, and no two for one element
ForSameLineSiblings(list) ==
    /\ \A i, j \in 1..Len(list) : i # j => list[i].element # list[j].element
    /\ \E i, j \in 1..Len(list) :
           /\ i # j
           /\ list[i].element.tag = list[j].element.tag
           /\ list[i].element.position.line = list[j].element.position.line

ReportedAt(result, transformation) ==
    \E e \in 1..Len(result.errors) :
        result.errors[e].position = transformation.position

\* every transformation applied without diagnostic has given its element an
\* attribute with its value, and as many attributes were added as
\* transformations were applied without diagnostic
EachElementItsOwn(result, parsed, rewritten) ==
    /\ \A k \in 1..Len(tTransformations) :
           ~ReportedAt(result, tTransformations[k]) =>
               /\ Counterpart(rewritten, parsed, tTransformations[k].element) # {}
               /\ \A c \in Counterpart(rewritten, parsed, tTransformations[k].element) :
                      Attr(rewritten[c], tTransformations[k].attribute)
                          = tTransformations[k].value
    /\ CarryingTestId(rewritten) - CarryingTestId(parsed)
           = Len(tTransformations) - Len(result.errors)

\* C30: where the template parser reports two or more elements of one tag
\* name on one line, applying their transformations gives each of them its
\* own attribute with its own value; no transformation overwrites the
\* attribute another one of the pass inserted, and as many attributes are
\* added as transformations are applied without a diagnostic.
SameLineElements ==
    (tParser = "vue" /\ tResult # <<>> /\ ForSameLineSiblings(tTransformations)) =>
        EachElementItsOwn(tResult[1], VueParse(tContent).elements,
                          VueParse(tResult[1].code).elements)

\* the list is for distinct elements and each transformation points one line
\* above its element, where transform looks for the element's own line
AnchoredOnOwnLines(list) ==
    /\ \A i, j \in 1..Len(list) : i # j => list[i].element # list[j].element
    /\ \A i \in 1..Len(list) : list[i].position.line = list[i].element.position.line - 1

\* what the code keeps of C30: elements of different tag names on one line
\* get their own attributes when transform looks at their own line
SameLineNeighbours ==
    (/\ tParser = "vue" /\ tResult # <<>>
     /\ AnchoredOnOwnLines(tTransformations)
     /\ tContent = VueNeighbours) =>
        EachElementItsOwn(tResult[1], VueParse(tContent).elements,
                          VueParse(tResult[1].code).elements)

SameLineNeighboursWitness ==
    /\ tParser = "vue" /\ tResult # <<>>
    /\ tContent = VueNeighbours
    /\ Len(tTransformations) = 2
    /\ AnchoredOnOwnLines(tTransformations)
    /\ tResult[1].errors = <<>>
    /\ CarryingTestId(VueParse(tResult[1].code).elements) = 2

\* the two buttons of one line rewritten as one: the first button carries
\* the id generated for the second, the second carries none
SecondOverwritesFirst ==
    /\ tParser = "vue" /\ tResult # <<>>
    /\ tContent = VueSiblings
    /\ Len(tTransformations) = 2
    /\ tTransformations[1].value = "test-yes-btn"
    /\ tTransformations[2].value = "test-yes-btn-1"
    /\ tResult[1].errors = <<>>
    /\ tResult[1].code =
           "<template>\n<button data-testid=\"test-yes-btn-1\">Yes</button><button>No</button>\n</template>"

=============================================================================
